---- MODULE Spec2Model ----
(***************************************************************************)
(* QualityHub AI service (apps/ai-service): the two generation services    *)
(* (TestGenerator, BDDGenerator), their response parsers, their mock       *)
(* generators and the LLM client factory.                                  *)
(*                                                                         *)
(* Text is modelled as a sequence of lines; a JSON document is a JSON      *)
(* value tree (null / str / num / list / dict) rendered on one line or,    *)
(* for an array, on an opening line, one line per item and a closing line. *)
(***************************************************************************)
EXTENDS Integers, Sequences, FiniteSets, TLC

VARIABLES
    tg,          \* the TestGenerator instance: use_ai, provider, api_key, _client
    bdd,         \* the BDDGenerator instance: use_ai, provider, api_key, _client
    ncalls,      \* number of service calls made so far
    factoryCalls,\* number of get_llm_client invocations made by the services
    vendorCalls, \* number of complete_simple invocations made by the services
    last,        \* the last service call: operation, arguments, vendor reply, outcome
    prevMock,    \* the mock-mode call before the last one (None when there is none)
    content,     \* parser harness: the reply text handed to _parse_response
    tgParsed,    \* parser harness: outcome of TestGenerator._parse_response(content)
    bddParsed,   \* parser harness: outcome of BDDGenerator._parse_response(content)
    settings,    \* factory harness: the memoized Settings object
    chosen,      \* factory harness: outcome of the last factory / resolver call
    adapter,     \* adapter harness: the OpenAIClient / AnthropicClient object (None before construction)
    exchange,    \* adapter harness: the operation in progress: inputs, request sent, vendor behaviour, outcome
    connections, \* adapter harness: number of vendor connection objects constructed
    tasks        \* concurrency harness: the concurrent calls on the service instances, each with its position

vars == <<tg, bdd, ncalls, factoryCalls, vendorCalls, last, prevMock,
          content, tgParsed, bddParsed, settings, chosen, adapter, exchange, connections,
          tasks>>

adapterVars == <<adapter, exchange, connections>>

None == [t |-> "None"]

-----------------------------------------------------------------------------
(* Bounds of the model                                                     *)

MaxItems == 2       \* items in a generated JSON array
MaxTests == 3       \* largest max_tests / max_scenarios argument drawn
MaxCalls == 2       \* service calls per behaviour

-----------------------------------------------------------------------------
(* JSON values as Python sees them after json.loads                        *)

JNull == [t |-> "null"]
JStr(s) == [t |-> "str", s |-> s]
JNum(n) == [t |-> "num", n |-> n]
JList(seq) == [t |-> "list", v |-> seq]
JDict(pairs) == [t |-> "dict", d |-> pairs]   \* <<key, value>> pairs in document order

\* dict.keys(), in insertion order
Keys(data) == [i \in 1..Len(data.d) |-> data.d[i][1]]

HasKey(data, key) == \E i \in 1..Len(data.d) : data.d[i][1] = key

\* data[key] for a key that is present
Item(data, key) == data.d[CHOOSE i \in 1..Len(data.d) : data.d[i][1] = key][2]

\* dict.get(key, default)
DictGet(data, key, default) ==
    IF HasKey(data, key) THEN Item(data, key) ELSE default

\* the test (key in data) for a str key, by the type of data: dict -> key
\* lookup, list -> element membership, str -> substring test, anything
\* else -> TypeError
InResult(data, key) ==
    CASE data.t = "dict" -> IF HasKey(data, key) THEN "yes" ELSE "no"
      [] data.t = "list" -> IF \E i \in 1..Len(data.v) : data.v[i] = JStr(key)
                            THEN "yes" ELSE "no"
      [] data.t = "str"  -> IF data.s = key THEN "yes" ELSE "no"
      [] OTHER           -> "TypeError"

-----------------------------------------------------------------------------
(* Outcomes: a returned value or a raised exception                        *)

Ok(v) == [ok |-> TRUE, val |-> v]
Raise(exc, msg, names) == [ok |-> FALSE, exc |-> exc, msg |-> msg, names |-> names]

\* Python class hierarchy of the exceptions that occur
Bases(exc) ==
    CASE exc = "JSONDecodeError"        -> {"JSONDecodeError", "ValueError", "Exception"}
      [] exc = "ValidationError"        -> {"ValidationError", "ValueError", "Exception"}
      [] exc = "ValueError"             -> {"ValueError", "Exception"}
      [] exc = "LLMAuthenticationError" -> {"LLMAuthenticationError", "LLMClientError", "Exception"}
      [] exc = "LLMRateLimitError"      -> {"LLMRateLimitError", "LLMClientError", "Exception"}
      [] exc = "LLMInvalidRequestError" -> {"LLMInvalidRequestError", "LLMClientError", "Exception"}
      [] exc = "LLMProviderError"       -> {"LLMProviderError", "LLMClientError", "Exception"}
      [] exc = "LLMClientError"         -> {"LLMClientError", "Exception"}
      [] exc = "APITimeoutError"        -> {"APITimeoutError", "APIConnectionError", "Exception"}
      [] exc = "IndexError"             -> {"IndexError", "LookupError", "Exception"}
      [] OTHER                          -> {exc, "Exception"}

IsInstance(exc, cls) == cls \in Bases(exc)

-----------------------------------------------------------------------------
(* Reply text: a sequence of lines                                         *)

FenceLine == [ln |-> "fence"]          \* a line holding only the fence marker
FenceJsonLine == [ln |-> "fence json"] \* the fence marker followed by the tag json
BlankLine == [ln |-> ""]
ProseLine == [ln |-> "prose"]          \* a line of natural language
OpenLine == [ln |-> "["]
CloseLine == [ln |-> "]"]
ValLine(j) == [ln |-> "json", val |-> j]   \* a complete JSON value on one line

\* str.strip() at line granularity: drop leading and trailing blank lines
RECURSIVE LStrip(_)
LStrip(text) ==
    IF text # <<>> /\ Head(text) = BlankLine THEN LStrip(Tail(text)) ELSE text

RECURSIVE RStrip(_)
RStrip(text) ==
    IF text # <<>> /\ text[Len(text)] = BlankLine
    THEN RStrip(SubSeq(text, 1, Len(text) - 1)) ELSE text

Strip(text) == RStrip(LStrip(text))

\* content.startswith(fence marker)
StartsWithFence(text) ==
    text # <<>> /\ text[1] \in {FenceLine, FenceJsonLine}

\* a plausible slip: only the opening fence line removed
DropFirstLine(text) == SubSeq(text, 2, Len(text))

\* "\n".join(content.split("\n")[1:-1])
DropFirstAndLastLine(text) == SubSeq(text, 2, Len(text) - 1)

\* a plausible slip: the last line removed only when it is a closing fence
StripClosingFenceOnly(text) ==
    LET stripped == Strip(text)
    IN  IF StartsWithFence(stripped)
        THEN IF stripped[Len(stripped)] = FenceLine THEN DropFirstAndLastLine(stripped)
             ELSE SubSeq(stripped, 2, Len(stripped))
        ELSE stripped

\* the fence handling at the head of both _parse_response methods
StripCodeBlock(text) ==
    LET stripped == Strip(text)
    IN  IF StartsWithFence(stripped) THEN DropFirstAndLastLine(stripped)
        ELSE stripped

\* json.loads: whitespace (blank lines) is insignificant; the text must be one
\* complete value, or an array written as "[", one value per line, "]"
NonBlank(text) == SelectSeq(text, LAMBDA l : l # BlankLine)

json_loads(text) ==
    LET toks == NonBlank(text)
        n == Len(toks)
    IN  IF n = 1 /\ toks[1].ln = "json" THEN Ok(toks[1].val)
        ELSE IF /\ n >= 2
                /\ toks[1] = OpenLine
                /\ toks[n] = CloseLine
                /\ \A i \in 2..(n - 1) : toks[i].ln = "json"
        THEN Ok(JList([i \in 1..(n - 2) |-> toks[i + 1].val]))
        ELSE Raise("JSONDecodeError", "Expecting value", {})

\* a plausible slip: items that fail are skipped and the rest returned
SkipFailures(outs) ==
    LET good == SelectSeq(outs, LAMBDA o : o.ok)
    IN  Ok([i \in 1..Len(good) |-> good[i].val])

\* the outcome of a loop body applied to each element in order: the first
\* exception raised, else the list of results
ForEach(outs) ==
    IF \E i \in 1..Len(outs) : ~outs[i].ok
    THEN outs[CHOOSE i \in 1..Len(outs) :
                 ~outs[i].ok /\ \A j \in 1..(i - 1) : outs[j].ok]
    ELSE Ok([i \in 1..Len(outs) |-> outs[i].val])

\* iterating a JSON value in a for loop: a list yields its elements, a dict
\* its keys, a str its characters; null and numbers are not iterable
Iterate(value) ==
    CASE value.t = "list" -> Ok(value.v)
      [] value.t = "dict" -> Ok([i \in 1..Len(value.d) |-> JStr(value.d[i][1])])
      [] value.t = "str"  -> Ok(IF value.s = "" THEN <<>> ELSE <<JStr("c")>>)
      [] OTHER            -> Raise("TypeError", "object is not iterable", {})

-----------------------------------------------------------------------------
(* TestGenerator: response parsing                                         *)

Priorities == {"critical", "high", "medium", "low"}
TestTypes == {"functional", "edge_case", "negative"}

\* TestStep(step_number=..., action=..., expected_result=...) inside the
\* steps loop of _parse_test_case
ParseTestStep(step_data, i) ==
    IF step_data.t # "dict"
    THEN Raise("AttributeError", "object has no attribute 'get'", {})
    ELSE LET sn == DictGet(step_data, "step_number", JNum(i))
             ac == DictGet(step_data, "action", JStr(""))
             er == DictGet(step_data, "expected_result", JStr(""))
             bad == (IF sn.t = "num" /\ sn.n >= 1 THEN {} ELSE {"step_number"})
                    \cup (IF ac.t = "str" THEN {} ELSE {"action"})
                    \cup (IF er.t = "str" THEN {} ELSE {"expected_result"})
         IN  IF bad # {} THEN Raise("ValidationError", "TestStep", bad)
             ELSE Ok([step_number |-> sn.n, action |-> ac.s,
                      expected_result |-> er.s])

\* a plausible slip: any string priority passed through unchecked
PriorityUnchecked(value) ==
    IF value.t = "str" THEN value.s ELSE "medium"

NormalizePriority(value) ==
    IF value.t = "str" /\ value.s \in Priorities THEN value.s ELSE "medium"

NormalizeTestType(value) ==
    IF value.t = "str" /\ value.s \in TestTypes THEN value.s ELSE "functional"

TestGenerator_parse_test_case(data) ==
    LET has == InResult(data, "title")
    IN  IF has = "TypeError"
        THEN Raise("TypeError", "argument is not iterable", {})
        ELSE IF has = "no"
        THEN Raise("ValueError", "Test case missing required field: title", {"title"})
        ELSE IF data.t # "dict"
        THEN Raise("AttributeError", "object has no attribute 'get'", {})
        ELSE
        LET it == Iterate(DictGet(data, "steps", JList(<<>>)))
        IN  IF ~it.ok THEN it
            ELSE
            LET steps == ForEach([i \in 1..Len(it.val) |-> ParseTestStep(it.val[i], i)])
                title == Item(data, "title")
                pre == DictGet(data, "preconditions", JNull)
                er == DictGet(data, "expected_result", JStr(""))
                bad == (IF title.t = "str" THEN {} ELSE {"title"})
                       \cup (IF pre.t \in {"str", "null"} THEN {} ELSE {"preconditions"})
                       \cup (IF er.t = "str" THEN {} ELSE {"expected_result"})
            IN  IF ~steps.ok THEN steps
                ELSE IF bad # {} THEN Raise("ValidationError", "GeneratedTestCase", bad)
                ELSE Ok([title |-> title.s,
                         preconditions |-> pre,
                         steps |-> steps.val,
                         expected_result |-> er.s,
                         priority |-> NormalizePriority(DictGet(data, "priority", JStr("medium"))),
                         test_type |-> NormalizeTestType(DictGet(data, "test_type", JStr("functional")))])

TestGenerator_parse_response(text) ==
    LET loaded == json_loads(StripCodeBlock(text))
    IN  IF ~loaded.ok THEN loaded
        ELSE
        LET noKey == loaded.val.t = "dict" /\ ~HasKey(loaded.val, "test_cases")
            data == IF loaded.val.t = "dict" /\ ~noKey
                    THEN Item(loaded.val, "test_cases") ELSE loaded.val
        IN  IF noKey
            THEN Raise("ValueError", "Expected array or object with 'test_cases' key",
                       {"test_cases"})
            ELSE IF data.t # "list"
            THEN Raise("ValueError", "Expected JSON array of test cases", {})
            ELSE ForEach([i \in 1..Len(data.v) |-> TestGenerator_parse_test_case(data.v[i])])


-----------------------------------------------------------------------------
(* BDDGenerator: response parsing, feature name, Gherkin rendering         *)

\* the BDDScenario model declares name, given, when, then and examples; a
\* tags argument is not a declared field and is dropped on construction
BDDScenario(name, given, when, then, examples, tags) ==
    [name |-> name, given |-> given, when |-> when, then |-> then,
     examples |-> examples]

IsListOfStr(value) ==
    value.t = "list" /\ \A i \in 1..Len(value.v) : value.v[i].t = "str"

StrList(value) == [i \in 1..Len(value.v) |-> value.v[i].s]

\* "if isinstance(given, str): given = [given]"
WrapStr(value) == IF value.t = "str" THEN JList(<<value>>) ELSE value

BDDGenerator_parse_scenario(data) ==
    LET has == InResult(data, "name")
    IN  IF has = "TypeError"
        THEN Raise("TypeError", "argument is not iterable", {})
        ELSE IF has = "no"
        THEN Raise("ValueError", "Scenario missing required field: name", {"name"})
        ELSE IF data.t # "dict"
        THEN Raise("AttributeError", "object has no attribute 'get'", {})
        ELSE
        LET given == WrapStr(DictGet(data, "given", JList(<<>>)))
            when == WrapStr(DictGet(data, "when", JList(<<>>)))
            then == WrapStr(DictGet(data, "then", JList(<<>>)))
            rawEx == DictGet(data, "examples", JNull)
            examples == IF rawEx.t = "list" THEN rawEx ELSE JNull
            name == Item(data, "name")
            bad == (IF name.t = "str" THEN {} ELSE {"name"})
                   \cup (IF IsListOfStr(given) THEN {} ELSE {"given"})
                   \cup (IF IsListOfStr(when) THEN {} ELSE {"when"})
                   \cup (IF IsListOfStr(then) THEN {} ELSE {"then"})
                   \cup (IF examples.t = "list"
                            /\ \E i \in 1..Len(examples.v) : examples.v[i].t # "dict"
                         THEN {"examples"} ELSE {})
        IN  IF bad # {} THEN Raise("ValidationError", "BDDScenario", bad)
            ELSE Ok(BDDScenario(name.s, StrList(given), StrList(when), StrList(then),
                                examples, DictGet(data, "tags", JNull)))

BDDGenerator_parse_response(text) ==
    LET loaded == json_loads(StripCodeBlock(text))
    IN  IF ~loaded.ok THEN loaded
        ELSE
        LET data == loaded.val
        IN  IF data.t = "dict" /\ ~HasKey(data, "scenarios")
            THEN Raise("ValueError", "Expected array or object with 'scenarios' key",
                       {"scenarios"})
            ELSE IF data.t \notin {"list", "dict"}
            THEN Raise("ValueError", "Expected JSON array or object", {})
            ELSE
            LET scenarios_data == IF data.t = "list" THEN data ELSE Item(data, "scenarios")
                feature_name == IF data.t = "list" THEN JNull
                                ELSE DictGet(data, "feature_name", JNull)
                it == Iterate(scenarios_data)
            IN  IF ~it.ok THEN it
                ELSE
                LET scenarios == ForEach([i \in 1..Len(it.val) |->
                                             BDDGenerator_parse_scenario(it.val[i])])
                IN  IF ~scenarios.ok THEN scenarios
                    ELSE Ok([scenarios |-> scenarios.val,
                             feature_name |-> feature_name,
                             background |-> IF data.t = "dict"
                                            THEN DictGet(data, "background", JNull)
                                            ELSE JNull])

FeatureNameLimit == 50
FeatureNameKeep == 47

\* a description is known by its text, its length and the length of its
\* stripped first sentence (the text before the first period)
Min(a, b) == IF a < b THEN a ELSE b

\* a plausible slip: a first sentence of exactly the limit is truncated too
ExtractFeatureNameAtLimit(description) ==
    IF description.sentence >= FeatureNameLimit
    THEN [t |-> "derived", of |-> description.text, take |-> FeatureNameKeep,
          ellipsis |-> TRUE]
    ELSE [t |-> "derived", of |-> description.text, take |-> description.sentence,
          ellipsis |-> FALSE]

extract_feature_name(description) ==
    IF description.sentence > FeatureNameLimit
    THEN [t |-> "derived", of |-> description.text, take |-> FeatureNameKeep,
          ellipsis |-> TRUE]
    ELSE [t |-> "derived", of |-> description.text, take |-> description.sentence,
          ellipsis |-> FALSE]

\* Python truthiness of a JSON value
Truthy(value) ==
    CASE value.t = "null" -> FALSE
      [] value.t = "str"  -> value.s # ""
      [] value.t = "num"  -> value.n # 0
      [] value.t = "list" -> value.v # <<>>
      [] value.t = "dict" -> value.d # <<>>
      [] OTHER            -> TRUE

\* the lines _format_gherkin emits for the steps of one category
StepLines(keyword, steps) ==
    [i \in 1..Len(steps) |->
        [k |-> "step", prefix |-> IF i = 1 THEN keyword ELSE "And", text |-> steps[i]]]

RECURSIVE Concat(_)
Concat(seqs) == IF seqs = <<>> THEN <<>> ELSE Head(seqs) \o Concat(Tail(seqs))

\* the Examples block of one scenario: header from the first row's keys, one
\* row per example; example[k] raises KeyError when a row lacks a header key
ExamplesBlock(examples) ==
    LET keys == Keys(examples.v[1])
        rows == [i \in 1..Len(examples.v) |->
                    IF \A j \in 1..Len(keys) : HasKey(examples.v[i], keys[j])
                    THEN Ok([k |-> "row",
                             cells |-> [j \in 1..Len(keys) |->
                                           Item(examples.v[i], keys[j])]])
                    ELSE Raise("KeyError", "key", {})]
        body == ForEach(rows)
    IN  IF ~body.ok THEN body
        ELSE Ok(<<[k |-> "blank"], [k |-> "examples"], [k |-> "header", cells |-> keys]>>
                \o body.val)

\* a plausible slip: every scenario headed "Scenario:", examples or not
ScenarioBlockPlainHeading(scenario, include_tags) ==
    LET hasExamples == Truthy(scenario.examples)
        steps == StepLines("Given", scenario.given) \o StepLines("When", scenario.when)
                 \o StepLines("Then", scenario.then)
        ex == IF hasExamples THEN ExamplesBlock(scenario.examples) ELSE Ok(<<>>)
    IN  IF ~ex.ok THEN ex
        ELSE Ok(<<[k |-> "Scenario:", name |-> scenario.name]>> \o steps \o ex.val
                \o <<[k |-> "blank"]>>)

ScenarioBlock(scenario, include_tags) ==
    LET hasExamples == Truthy(scenario.examples)
        \* hasattr(scenario, "tags") is false: the model has no such field
        tagLines == IF include_tags /\ "tags" \in DOMAIN scenario /\ Truthy(scenario.tags)
                    THEN <<[k |-> "tags", tags |-> scenario.tags]>> ELSE <<>>
        heading == IF hasExamples
                   THEN [k |-> "Scenario Outline:", name |-> scenario.name]
                   ELSE [k |-> "Scenario:", name |-> scenario.name]
        steps == StepLines("Given", scenario.given) \o StepLines("When", scenario.when)
                 \o StepLines("Then", scenario.then)
        ex == IF hasExamples THEN ExamplesBlock(scenario.examples) ELSE Ok(<<>>)
    IN  IF ~ex.ok THEN ex
        ELSE Ok(tagLines \o <<heading>> \o steps \o ex.val \o <<[k |-> "blank"]>>)

format_gherkin(feature_name, feature_description, scenarios, include_tags) ==
    LET blocks == ForEach([i \in 1..Len(scenarios) |->
                              ScenarioBlock(scenarios[i], include_tags)])
    IN  IF ~blocks.ok THEN blocks
        ELSE Ok(<<[k |-> "Feature:", name |-> feature_name],
                  [k |-> "description", text |-> feature_description.text],
                  [k |-> "blank"]>> \o Concat(blocks.val))


-----------------------------------------------------------------------------
(* LLM client factory                                                      *)

NoKey == "None"                        \* Python None for an api key
PROVIDERS == {"openai", "anthropic"}   \* keys of the _PROVIDERS registry

\* bool(api_key): None and the empty string are not a configured key
KeyConfigured(key) == key \notin {NoKey, ""}

has_openai_key(st) == KeyConfigured(st.openai_api_key)
has_anthropic_key(st) == KeyConfigured(st.anthropic_api_key)

\* "api_key or settings.<vendor>_api_key" in the adapter constructors
ResolveKey(provider, api_key, st) ==
    IF KeyConfigured(api_key) THEN api_key
    ELSE IF provider = "openai" THEN st.openai_api_key ELSE st.anthropic_api_key

get_llm_client(provider, api_key, st) ==
    IF provider \notin PROVIDERS
    THEN Raise("ValueError", "Unknown provider", {provider})
    ELSE Ok([t |-> "client", provider |-> provider,
             api_key |-> ResolveKey(provider, api_key, st)])

\* a plausible slip: the fallback goes to OpenAI only, as the docstring words it
DefaultClientOpenAIFallbackOnly(st) ==
    IF st.default_ai_provider = "anthropic" /\ has_anthropic_key(st)
    THEN get_llm_client("anthropic", NoKey, st)
    ELSE IF has_openai_key(st)
    THEN get_llm_client("openai", NoKey, st)
    ELSE Raise("LLMAuthenticationError", "No LLM API keys configured", {})

get_default_client(st) ==
    IF st.default_ai_provider = "anthropic" /\ has_anthropic_key(st)
    THEN get_llm_client("anthropic", NoKey, st)
    ELSE IF has_openai_key(st)
    THEN get_llm_client("openai", NoKey, st)
    ELSE IF has_anthropic_key(st)
    THEN get_llm_client("anthropic", NoKey, st)
    ELSE Raise("LLMAuthenticationError", "No LLM API keys configured", {})

\* a plausible slip: the fallback returns the other vendor's key under the
\* preferred provider's name
ResolveAiProviderKeepingName(st) ==
    LET provider == st.default_ai_provider
    IN  IF provider = "anthropic" /\ has_anthropic_key(st)
        THEN [api_key |-> st.anthropic_api_key, provider |-> "anthropic", use_ai |-> TRUE]
        ELSE IF has_openai_key(st)
        THEN [api_key |-> st.openai_api_key, provider |-> provider, use_ai |-> TRUE]
        ELSE IF has_anthropic_key(st)
        THEN [api_key |-> st.anthropic_api_key, provider |-> provider, use_ai |-> TRUE]
        ELSE [api_key |-> NoKey, provider |-> provider, use_ai |-> FALSE]

resolve_ai_provider(st) ==
    LET provider == st.default_ai_provider
    IN  IF provider = "anthropic" /\ has_anthropic_key(st)
        THEN [api_key |-> st.anthropic_api_key, provider |-> "anthropic", use_ai |-> TRUE]
        ELSE IF provider = "openai" /\ has_openai_key(st)
        THEN [api_key |-> st.openai_api_key, provider |-> "openai", use_ai |-> TRUE]
        ELSE IF has_openai_key(st)
        THEN [api_key |-> st.openai_api_key, provider |-> "openai", use_ai |-> TRUE]
        ELSE IF has_anthropic_key(st)
        THEN [api_key |-> st.anthropic_api_key, provider |-> "anthropic", use_ai |-> TRUE]
        ELSE [api_key |-> NoKey, provider |-> provider, use_ai |-> FALSE]

-----------------------------------------------------------------------------
(* Service plumbing shared by TestGenerator and BDDGenerator               *)

\* the service's own error, carrying the message prefix and the cause
ServiceError(kind, prefix, cause) ==
    [ok |-> FALSE, exc |-> kind, msg |-> prefix, names |-> {}, cause |-> cause]

\* _get_client of either service: the cached client, else a new one from the
\* factory, cached on success; a factory failure is wrapped in errorKind
\* a plausible slip: the factory asked on every call, cached client or not
ServiceGetClientWithoutCache(self, st, errorKind) ==
    LET made == get_llm_client(self.provider, self.api_key, st)
    IN  IF made.ok
        THEN [out |-> made, self |-> [self EXCEPT !.client = made.val], factory |-> 1]
        ELSE [out |-> ServiceError(errorKind, "Failed to create LLM client:", made),
              self |-> self, factory |-> 1]

Service_get_client(self, st, errorKind) ==
    IF self.client # None
    THEN [out |-> Ok(self.client), self |-> self, factory |-> 0]
    ELSE LET made == get_llm_client(self.provider, self.api_key, st)
         IN  IF made.ok
             THEN [out |-> made, self |-> [self EXCEPT !.client = made.val], factory |-> 1]
             ELSE [out |-> ServiceError(errorKind, "Failed to create LLM client:", made),
                   self |-> self, factory |-> 1]

\* seq[:k]
SliceTo(seq, k) ==
    IF k >= 0 THEN SubSeq(seq, 1, Min(k, Len(seq)))
    ELSE SubSeq(seq, 1, Len(seq) + k)

LLMResponse(text) ==
    [content |-> text, model |-> "vendor-model", prompt_tokens |-> 100,
     completion_tokens |-> 50, total_tokens |-> 150]

-----------------------------------------------------------------------------
(* TestGenerator: mock generation and generate_tests                       *)

MockTitleDescriptionChars == 50

\* description[:50]
MockTitleTail(description) ==
    [of |-> description.text, take |-> Min(description.len, MockTitleDescriptionChars)]

TestStep(n, action, expected) ==
    [step_number |-> n, action |-> action, expected_result |-> expected]

TestGenerator_generate_mock_tests(description, test_type, max_tests, priority) ==
    LET default_priority == IF priority # "None" THEN priority ELSE "medium"
        functional ==
            [title |-> <<"Verify basic functionality - ", MockTitleTail(description)>>,
             preconditions |-> JStr("User is logged in and has appropriate permissions"),
             steps |-> <<TestStep(1, "Navigate to the feature", "Feature page is displayed"),
                         TestStep(2, "Perform the main action", "Action is completed successfully"),
                         TestStep(3, "Verify the result", "Expected outcome is achieved")>>,
             expected_result |-> "Feature works as described",
             priority |-> default_priority, test_type |-> "functional"]
        edge ==
            [title |-> <<"Verify edge case handling - ", MockTitleTail(description)>>,
             preconditions |-> JStr("System is in a boundary condition state"),
             steps |-> <<TestStep(1, "Set up boundary condition", "System accepts boundary values"),
                         TestStep(2, "Execute feature at boundary", "Feature handles edge case correctly")>>,
             expected_result |-> "Edge cases are handled gracefully",
             priority |-> default_priority, test_type |-> "edge_case"]
        negative ==
            [title |-> <<"Verify error handling - ", MockTitleTail(description)>>,
             preconditions |-> JStr("System is ready to receive invalid input"),
             steps |-> <<TestStep(1, "Provide invalid input", "System validates input"),
                         TestStep(2, "Verify error message", "Appropriate error message is displayed")>>,
             expected_result |-> "Errors are handled gracefully with clear messages",
             priority |-> default_priority, test_type |-> "negative"]
        t1 == IF test_type \in {"functional", "all"} /\ 0 < max_tests
              THEN <<functional>> ELSE <<>>
        t2 == IF test_type \in {"edge_case", "all"} /\ Len(t1) < max_tests
              THEN t1 \o <<edge>> ELSE t1
        t3 == IF test_type \in {"negative", "all"} /\ Len(t2) < max_tests
              THEN t2 \o <<negative>> ELSE t2
    IN  t3

\* a plausible slip: the mock generator called without the requested type
MockResponseIgnoringType(self, a) ==
    Ok([test_cases |-> TestGenerator_generate_mock_tests(a.description, "all",
                                                        a.max_tests, a.priority),
        metadata |-> [provider |-> self.provider, model |-> "mock",
                      test_type |-> a.test_type,
                      description_length |-> a.description.len,
                      prompt_tokens |-> 0, completion_tokens |-> 0, total_tokens |-> 0]])

TestGenerator_generate_mock_response(self, a) ==
    Ok([test_cases |-> TestGenerator_generate_mock_tests(a.description, a.test_type,
                                                        a.max_tests, a.priority),
        metadata |-> [provider |-> self.provider, model |-> "mock",
                      test_type |-> a.test_type,
                      description_length |-> a.description.len,
                      prompt_tokens |-> 0, completion_tokens |-> 0, total_tokens |-> 0]])

\* a plausible slip: no catch-all clause, so other exceptions escape unwrapped
WrapWithoutCatchAll(e) ==
    IF IsInstance(e.exc, "LLMClientError")
    THEN ServiceError("TestGenerationError", "AI provider error:", e)
    ELSE IF IsInstance(e.exc, "JSONDecodeError")
    THEN ServiceError("TestGenerationError", "Failed to parse AI response:", e)
    ELSE e

\* the except clauses of generate_tests, in order
TestGenerator_wrap(e) ==
    IF IsInstance(e.exc, "LLMClientError")
    THEN ServiceError("TestGenerationError", "AI provider error:", e)
    ELSE IF IsInstance(e.exc, "JSONDecodeError")
    THEN ServiceError("TestGenerationError", "Failed to parse AI response:", e)
    ELSE ServiceError("TestGenerationError", "Test generation failed:", e)

\* a plausible slip: truncating before the type filter is applied
TruncateThenFilter(test_cases, test_type, max_tests) ==
    LET limited == SliceTo(test_cases, max_tests)
    IN  IF test_type # "all"
        THEN SelectSeq(limited, LAMBDA tc : tc.test_type = test_type)
        ELSE limited

\* "Apply test type filter if specific type requested", then "Limit to max_tests"
TestGenerator_select(test_cases, test_type, max_tests) ==
    LET filtered == IF test_type # "all"
                    THEN SelectSeq(test_cases, LAMBDA tc : tc.test_type = test_type)
                    ELSE test_cases
    IN  SliceTo(filtered, max_tests)

\* the AI path after complete_simple returned or raised the given reply
TestGenerator_finish(self, a, reply) ==
    IF ~reply.ok THEN TestGenerator_wrap(reply)
    ELSE
    LET parsed == TestGenerator_parse_response(reply.val.content)
    IN  IF ~parsed.ok THEN TestGenerator_wrap(parsed)
        ELSE
        Ok([test_cases |-> TestGenerator_select(parsed.val, a.test_type, a.max_tests),
                metadata |-> [provider |-> self.provider, model |-> reply.val.model,
                              test_type |-> a.test_type,
                              description_length |-> a.description.len,
                              prompt_tokens |-> reply.val.prompt_tokens,
                              completion_tokens |-> reply.val.completion_tokens,
                              total_tokens |-> reply.val.total_tokens]])


-----------------------------------------------------------------------------
(* BDDGenerator: mock generation and generate_scenarios                    *)

\* the BDDGenerationResponse model declares feature_name, feature_description,
\* scenarios and gherkin; feature_name must be a string; a metadata argument
\* is not a declared field and is dropped on construction
BDDGenerationResponse(feature_name, feature_description, scenarios, gherkin, metadata) ==
    IF feature_name.t \in {"str", "derived"}
    THEN Ok([feature_name |-> feature_name,
             feature_description |-> feature_description,
             scenarios |-> scenarios, gherkin |-> gherkin])
    ELSE Raise("ValidationError", "BDDGenerationResponse", {"feature_name"})

Row(input, result) ==
    JDict(<< <<"input", JStr(input)>>, <<"result", JStr(result)>> >>)

BDDGenerator_generate_mock_scenarios(feature_description, max_scenarios, include_examples, include_tags) ==
    LET Tags(a, b) == IF include_tags THEN JList(<<JStr(a), JStr(b)>>) ELSE JNull
        happy ==
            BDDScenario("Successfully complete the main flow",
                        <<"the user is logged in", "the user has required permissions">>,
                        <<"the user performs the main action">>,
                        <<"the action is completed successfully",
                          "the user sees a success message">>,
                        JNull, Tags("@smoke", "@happy-path"))
        validation ==
            BDDScenario("Validate input data",
                        <<"the user is on the input form">>,
                        <<"the user enters <input>", "the user submits the form">>,
                        <<"the system shows <result>">>,
                        IF include_examples
                        THEN JList(<<Row("valid_value", "success"),
                                     Row("invalid_value", "error"),
                                     Row("empty", "error")>>)
                        ELSE JNull,
                        Tags("@validation", "@regression"))
        errors ==
            BDDScenario("Handle error conditions gracefully",
                        <<"the system is in an error state">>,
                        <<"the user attempts to perform an action">>,
                        <<"the user sees an appropriate error message",
                          "the user can recover from the error">>,
                        JNull, Tags("@error-handling", "@regression"))
        s1 == IF 0 < max_scenarios THEN <<happy>> ELSE <<>>
        s2 == IF Len(s1) < max_scenarios THEN s1 \o <<validation>> ELSE s1
        s3 == IF Len(s2) < max_scenarios THEN s2 \o <<errors>> ELSE s2
    IN  s3

BDDMetadata(self, model, focus, description, pt, ct, tt) ==
    [provider |-> self.provider, model |-> model, scenario_focus |-> focus,
     description_length |-> description.len,
     prompt_tokens |-> pt, completion_tokens |-> ct, total_tokens |-> tt]

\* a plausible slip: the example rows emitted whatever include_examples says
MockScenariosAlwaysWithExamples(self, a) ==
    LET feature_name == extract_feature_name(a.feature_description)
        scenarios == BDDGenerator_generate_mock_scenarios(
                         a.feature_description, a.max_scenarios, TRUE, a.include_tags)
        gherkin == format_gherkin(feature_name, a.feature_description, scenarios,
                                  a.include_tags)
    IN  IF ~gherkin.ok THEN gherkin
        ELSE Ok([feature_name |-> feature_name,
                 feature_description |-> a.feature_description,
                 scenarios |-> scenarios, gherkin |-> gherkin.val])

BDDGenerator_generate_mock_response(self, a) ==
    LET feature_name == extract_feature_name(a.feature_description)
        scenarios == BDDGenerator_generate_mock_scenarios(
                         a.feature_description, a.max_scenarios,
                         a.include_examples, a.include_tags)
        gherkin == format_gherkin(feature_name, a.feature_description, scenarios,
                                  a.include_tags)
    IN  IF ~gherkin.ok THEN gherkin
        ELSE BDDGenerationResponse(feature_name, a.feature_description, scenarios,
                                   gherkin.val,
                                   BDDMetadata(self, "mock", "comprehensive",
                                               a.feature_description, 0, 0, 0))

\* the except clauses of generate_scenarios, in order
BDDGenerator_wrap(e) ==
    IF IsInstance(e.exc, "LLMClientError")
    THEN ServiceError("BDDGenerationError", "AI provider error:", e)
    ELSE IF IsInstance(e.exc, "JSONDecodeError")
    THEN ServiceError("BDDGenerationError", "Failed to parse AI response:", e)
    ELSE IF IsInstance(e.exc, "ValueError")
    THEN ServiceError("BDDGenerationError", "Invalid response format:", e)
    ELSE ServiceError("BDDGenerationError", "BDD generation failed:", e)

\* the AI path after complete_simple returned or raised the given reply
BDDGenerator_finish(self, a, reply) ==
    IF ~reply.ok THEN BDDGenerator_wrap(reply)
    ELSE
    LET parsed == BDDGenerator_parse_response(reply.val.content)
    IN  IF ~parsed.ok THEN BDDGenerator_wrap(parsed)
        ELSE
        LET feature_name == IF Truthy(parsed.val.feature_name)
                            THEN parsed.val.feature_name
                            ELSE extract_feature_name(a.feature_description)
            scenarios == SliceTo(parsed.val.scenarios, a.max_scenarios)
            gherkin == format_gherkin(feature_name, a.feature_description, scenarios,
                                      a.include_tags)
        IN  IF ~gherkin.ok THEN BDDGenerator_wrap(gherkin)
            ELSE
            LET response == BDDGenerationResponse(
                                feature_name, a.feature_description, scenarios,
                                gherkin.val,
                                BDDMetadata(self, reply.val.model, a.scenario_focus,
                                            a.feature_description,
                                            reply.val.prompt_tokens,
                                            reply.val.completion_tokens,
                                            reply.val.total_tokens))
            IN  IF response.ok THEN response ELSE BDDGenerator_wrap(response)


-----------------------------------------------------------------------------
(* Inputs drawn by the model                                               *)

Absent == [t |-> "absent"]     \* marks a key left out of a generated dict

Field(key, value) == IF value = Absent THEN <<>> ELSE << <<key, value>> >>

\* a test-case object as a vendor writes it
TCItem(title, test_type, priority) ==
    JDict(Field("title", title)
          \o << <<"steps", JList(<<JDict(<< <<"action", JStr("do")>>,
                                            <<"expected_result", JStr("done")>> >>)>>)>>,
                <<"expected_result", JStr("works")>> >>
          \o Field("priority", priority)
          \o Field("test_type", test_type))

\* a scenario object as a vendor writes it
SCItem(name, given, examples) ==
    JDict(Field("name", name)
          \o << <<"given", given>>,
                <<"when", JList(<<JStr("the user acts")>>)>>,
                <<"then", JStr("the system answers")>> >>
          \o Field("examples", examples)
          \o << <<"tags", JList(<<JStr("@smoke")>>)>> >>)

GoodRows == JList(<<Row("a", "ok"), Row("b", "error")>>)
\* a second row that lacks a column of the first
RaggedRows == JList(<<Row("a", "ok"), JDict(<< <<"input", JStr("b")>> >>)>>)

RECURSIVE SeqsUpTo(_, _)
SeqsUpTo(S, n) ==
    IF n = 0 THEN {<<>>}
    ELSE LET shorter == SeqsUpTo(S, n - 1)
         IN  shorter \cup {Append(q, x) : q \in {r \in shorter : Len(r) = n - 1}, x \in S}

Descriptions ==
    {[text |-> "User login", len |-> 10, sentence |-> 10],
     [text |-> "Order processing workflow with many steps", len |-> 60, sentence |-> 55],
     [text |-> "A first sentence of exactly fifty characters", len |-> 50, sentence |-> 50]}

-----------------------------------------------------------------------------
(* The services under calls                                                *)

ServiceSettings ==
    [default_ai_provider |-> "openai", openai_api_key |-> "sk-openai",
     anthropic_api_key |-> NoKey]

ServiceConfigs ==
    {[use_ai |-> FALSE, provider |-> "openai", api_key |-> NoKey],
     [use_ai |-> TRUE, provider |-> "openai", api_key |-> "sk-explicit"],
     [use_ai |-> TRUE, provider |-> "anthropic", api_key |-> NoKey],
     [use_ai |-> TRUE, provider |-> "unknown", api_key |-> "sk-explicit"]}

NewService(cfg) ==
    [use_ai |-> cfg.use_ai, provider |-> cfg.provider, api_key |-> cfg.api_key,
     client |-> None]

ServiceTCItems ==
    {TCItem(JStr("T1"), JStr("functional"), JStr("high")),
     TCItem(JStr("T2"), JStr("negative"), JStr("urgent"))}

ServiceSCItems ==
    {SCItem(JStr("S1"), JList(<<JStr("a user")>>), GoodRows),
     SCItem(JStr("S2"), JStr("a user"), Absent)}

OneLine(value) == <<ValLine(value)>>

\* replies a vendor gives to a test-generation prompt
TestReplies ==
    {OneLine(JList(q)) : q \in SeqsUpTo(ServiceTCItems, MaxItems)}
    \cup {OneLine(JList(<<TCItem(JStr("T3"), JStr("all"), JStr("low"))>>)),
          OneLine(JList(<<TCItem(JStr("T1"), JStr("negative"), JStr("high")),
                          TCItem(Absent, JStr("negative"), JStr("low"))>>)),
          OneLine(JDict(<< <<"test_cases",
                             JList(<<TCItem(JStr("T1"), JStr("edge_case"), Absent)>>)>> >>)),
          OneLine(JDict(<< <<"tests", JList(<<>>)>> >>)),
          <<FenceJsonLine,
            ValLine(JList(<<TCItem(JStr("T1"), Absent, JStr("critical"))>>)),
            FenceLine>>,
          <<ProseLine>>}

\* replies a vendor gives to a BDD prompt
ScenarioReplies ==
    {OneLine(JList(q)) : q \in SeqsUpTo(ServiceSCItems, MaxItems)}
    \cup {OneLine(JList(<<SCItem(JStr("S3"), JList(<<JStr("a user")>>), RaggedRows)>>)),
          OneLine(JList(<<SCItem(JStr("S1"), JStr("a user"), Absent),
                          SCItem(Absent, JStr("a user"), Absent)>>)),
          OneLine(JDict(<< <<"feature_name", JStr("Login")>>,
                           <<"scenarios",
                             JList(<<SCItem(JStr("S1"), JStr("a user"), Absent)>>)>> >>)),
          OneLine(JDict(<< <<"feature_name", JNum(7)>>,
                           <<"scenarios", JList(<<>>)>> >>)),
          OneLine(JDict(<< <<"feature", JStr("Login")>> >>)),
          OneLine(JList(<<SCItem(JStr("S4"), JStr("a user"), JList(<<>>)),
                          SCItem(JStr("S1"), JList(<<JStr("a user")>>), GoodRows)>>)),
          <<FenceJsonLine,
            ValLine(JList(<<SCItem(JStr("S2"), JStr("a user"), GoodRows)>>)),
            FenceLine>>,
          <<ProseLine>>}

VendorErrors ==
    {Raise(e, "vendor call failed", {}) :
        e \in {"LLMAuthenticationError", "LLMRateLimitError",
               "LLMInvalidRequestError", "LLMProviderError"}}

\* what complete_simple can do on a client: without a resolvable key the
\* adapter raises LLMAuthenticationError before any vendor call
VendorOutcomes(client, replies) ==
    IF ~KeyConfigured(client.api_key)
    THEN {Raise("LLMAuthenticationError", "API key not configured", {})}
    ELSE VendorErrors \cup {Ok(LLMResponse(text)) : text \in replies}

TestArgs ==
    [description : Descriptions,
     test_type : TestTypes \cup {"all"},
     max_tests : 1..MaxTests,
     priority : {"None"} \cup Priorities]

ScenarioFocuses == {"happy_path", "comprehensive"}

ScenarioArgs ==
    [feature_description : Descriptions,
     scenario_focus : ScenarioFocuses,
     max_scenarios : 1..MaxTests,
     include_examples : BOOLEAN,
     include_tags : BOOLEAN]

NoCall == [t |-> "None"]

CallRecord(svc, op, a, mode, reply, factory, vendor, out) ==
    [t |-> "call", svc |-> svc, op |-> op, args |-> a, mode |-> mode,
     reply |-> reply, factory |-> factory, vendor |-> vendor,
     json_mode |-> (vendor = 1), out |-> out]


\* the mock-mode call that becomes the earlier call once its result is handed back
Shift(previous) ==
    IF previous.t = "call" /\ previous.mode = "mock" THEN previous ELSE NoCall

harnessVars == <<content, tgParsed, bddParsed, settings, chosen, adapterVars, tasks>>

\* TestGenerator.generate_tests / TestGenerator.generate (which delegates to
\* generate_tests with the same arguments)
\* a plausible slip: a failed vendor call is tried once more before giving up
TestGeneratorCallWithRetry(op, a) ==
    /\ last = NoCall
    /\ ncalls < MaxCalls
    /\ ncalls' = ncalls + 1
    /\ UNCHANGED <<bdd, prevMock, harnessVars>>
    /\ IF ~tg.use_ai
       THEN /\ last' = CallRecord("tg", op, a, "mock", NoCall, 0, 0,
                                  TestGenerator_generate_mock_response(tg, a))
            /\ UNCHANGED <<tg, factoryCalls, vendorCalls>>
       ELSE LET gc == Service_get_client(tg, settings, "TestGenerationError")
            IN  /\ tg' = gc.self
                /\ factoryCalls' = factoryCalls + gc.factory
                /\ IF ~gc.out.ok
                   THEN /\ last' = CallRecord("tg", op, a, "ai", NoCall, gc.factory, 0,
                                              TestGenerator_wrap(gc.out))
                        /\ UNCHANGED vendorCalls
                   ELSE \E reply \in VendorOutcomes(gc.out.val, TestReplies) :
                            LET tries == IF reply.ok THEN 1 ELSE 2
                            IN  /\ last' = [CallRecord("tg", op, a, "ai", reply, gc.factory, 1,
                                                       TestGenerator_finish(gc.self, a, reply))
                                               EXCEPT !.vendor = tries]
                                /\ vendorCalls' = vendorCalls + tries

TestGeneratorCall(op, a) ==
    /\ last = NoCall
    /\ ncalls < MaxCalls
    /\ ncalls' = ncalls + 1
    /\ UNCHANGED <<bdd, prevMock, harnessVars>>
    /\ IF ~tg.use_ai
       THEN /\ last' = CallRecord("tg", op, a, "mock", NoCall, 0, 0,
                                  TestGenerator_generate_mock_response(tg, a))
            /\ UNCHANGED <<tg, factoryCalls, vendorCalls>>
       ELSE LET gc == Service_get_client(tg, settings, "TestGenerationError")
            IN  /\ tg' = gc.self
                /\ factoryCalls' = factoryCalls + gc.factory
                /\ IF ~gc.out.ok
                   THEN /\ last' = CallRecord("tg", op, a, "ai", NoCall, gc.factory, 0,
                                              TestGenerator_wrap(gc.out))
                        /\ UNCHANGED vendorCalls
                   ELSE \E reply \in VendorOutcomes(gc.out.val, TestReplies) :
                            /\ last' = CallRecord("tg", op, a, "ai", reply, gc.factory, 1,
                                                  TestGenerator_finish(gc.self, a, reply))
                            /\ vendorCalls' = vendorCalls + 1

TestGenerator_generate_tests == \E a \in TestArgs : TestGeneratorCall("generate_tests", a)

TestGenerator_generate == \E a \in TestArgs : TestGeneratorCall("generate", a)

BDDGeneratorCall(op, a) ==
    /\ last = NoCall
    /\ ncalls < MaxCalls
    /\ ncalls' = ncalls + 1
    /\ UNCHANGED <<tg, prevMock, harnessVars>>
    /\ IF ~bdd.use_ai
       THEN /\ last' = CallRecord("bdd", op, a, "mock", NoCall, 0, 0,
                                  BDDGenerator_generate_mock_response(bdd, a))
            /\ UNCHANGED <<bdd, factoryCalls, vendorCalls>>
       ELSE LET gc == Service_get_client(bdd, settings, "BDDGenerationError")
            IN  /\ bdd' = gc.self
                /\ factoryCalls' = factoryCalls + gc.factory
                /\ IF ~gc.out.ok
                   THEN /\ last' = CallRecord("bdd", op, a, "ai", NoCall, gc.factory, 0,
                                              BDDGenerator_wrap(gc.out))
                        /\ UNCHANGED vendorCalls
                   ELSE \E reply \in VendorOutcomes(gc.out.val, ScenarioReplies) :
                            /\ last' = CallRecord("bdd", op, a, "ai", reply, gc.factory, 1,
                                                  BDDGenerator_finish(gc.self, a, reply))
                            /\ vendorCalls' = vendorCalls + 1

BDDGenerator_generate_scenarios ==
    \E a \in ScenarioArgs : BDDGeneratorCall("generate_scenarios", a)

\* generate() passes scenario_focus="comprehensive" and include_tags=True
BDDGenerator_generate ==
    \E a \in ScenarioArgs :
        /\ a.scenario_focus = "comprehensive"
        /\ a.include_tags
        /\ BDDGeneratorCall("generate", a)

\* the route handler hands the awaited result (or the error it turned into a
\* 500) back to its caller; the service keeps its client, the next call can start
ReturnToCaller ==
    /\ last # NoCall
    /\ last' = NoCall
    /\ prevMock' = Shift(last)
    /\ UNCHANGED <<tg, bdd, ncalls, factoryCalls, vendorCalls, harnessVars>>

Init ==
    /\ \E cfg \in ServiceConfigs :
          /\ tg = NewService(cfg)
          /\ bdd = NewService(cfg)
    /\ ncalls = 0
    /\ factoryCalls = 0
    /\ vendorCalls = 0
    /\ last = NoCall
    /\ prevMock = NoCall
    /\ settings = ServiceSettings
    /\ content = <<>>
    /\ tgParsed = None
    /\ bddParsed = None
    /\ chosen = None
    /\ adapter = None
    /\ exchange = None
    /\ connections = 0
    /\ tasks = <<>>

Next ==
    \/ TestGenerator_generate_tests
    \/ TestGenerator_generate
    \/ BDDGenerator_generate_scenarios
    \/ BDDGenerator_generate
    \/ ReturnToCaller

Spec == Init /\ [][Next]_vars


-----------------------------------------------------------------------------
(* Properties of the services                                              *)

IsCall(c, svc) == c.t = "call" /\ c.svc = svc

\* C1: a TestGenerator built with use_ai=false never creates or calls an LLM
\* client, never raises for valid arguments, returns between 1 and max_tests
\* test cases, each with at least one step and of the requested single type,
\* and gives identical results for identical arguments.
C1_MockTestsContract ==
    ~tg.use_ai =>
        /\ tg.client = None
        /\ IsCall(last, "tg") =>
              /\ last.factory = 0
              /\ last.vendor = 0
              /\ last.out.ok
              /\ Len(last.out.val.test_cases) >= 1
              /\ Len(last.out.val.test_cases) <= last.args.max_tests
              /\ \A i \in 1..Len(last.out.val.test_cases) :
                    /\ Len(last.out.val.test_cases[i].steps) >= 1
                    /\ last.args.test_type # "all" =>
                          last.out.val.test_cases[i].test_type = last.args.test_type
              /\ (IsCall(prevMock, "tg") /\ prevMock.args = last.args) =>
                    prevMock.out = last.out

\* two mock-mode calls with the same arguments, one through each entry point
C1_Witness ==
    /\ ~tg.use_ai
    /\ IsCall(last, "tg") /\ IsCall(prevMock, "tg")
    /\ last.op = "generate" /\ prevMock.op = "generate_tests"
    /\ prevMock.args = last.args
    /\ last.args.test_type = "negative"
    /\ last.out.ok

\* C2: a BDDGenerator built with use_ai=false never creates or calls an LLM
\* client, never raises, returns between 1 and max_scenarios scenarios with
\* non-empty given, when and then lists, returns examples = null on every
\* scenario when include_examples is false, and is deterministic.
C2_MockScenariosContract ==
    ~bdd.use_ai =>
        /\ bdd.client = None
        /\ IsCall(last, "bdd") =>
              /\ last.factory = 0
              /\ last.vendor = 0
              /\ last.out.ok
              /\ Len(last.out.val.scenarios) >= 1
              /\ Len(last.out.val.scenarios) <= last.args.max_scenarios
              /\ \A i \in 1..Len(last.out.val.scenarios) :
                    /\ last.out.val.scenarios[i].given # <<>>
                    /\ last.out.val.scenarios[i].when # <<>>
                    /\ last.out.val.scenarios[i].then # <<>>
                    /\ ~last.args.include_examples =>
                          last.out.val.scenarios[i].examples = JNull
              /\ (IsCall(prevMock, "bdd") /\ prevMock.args = last.args) =>
                    prevMock.out = last.out

\* two mock-mode BDD calls with the same arguments, examples switched off and
\* room for the scenario that would carry them
C2_Witness ==
    /\ ~bdd.use_ai
    /\ IsCall(last, "bdd") /\ IsCall(prevMock, "bdd")
    /\ prevMock.args = last.args
    /\ ~last.args.include_examples
    /\ Len(last.out.val.scenarios) >= 2

ServiceErrorKind(svc) ==
    IF svc = "tg" THEN "TestGenerationError" ELSE "BDDGenerationError"

\* C3: on the AI path every failure reaches the caller as the service's own
\* error kind, never as the underlying exception; a failure of the client is
\* always reported; an LLMClientError is reported as "AI provider error:" and
\* a JSON decode failure as "Failed to parse AI response:".
C3_SingleErrorKind ==
    (last.t = "call" /\ last.mode = "ai") =>
        /\ (last.vendor = 1 /\ ~last.reply.ok) =>
              (~last.out.ok /\ last.out.cause = last.reply)
        /\ ~last.out.ok =>
              /\ last.out.exc = ServiceErrorKind(last.svc)
              /\ IsInstance(last.out.cause.exc, "LLMClientError") =>
                    last.out.msg = "AI provider error:"
              /\ last.out.cause.exc = "JSONDecodeError" =>
                    last.out.msg = "Failed to parse AI response:"

\* an AI-path call of the TestGenerator whose vendor call returned text that
\* is not JSON
C3_Witness ==
    /\ IsCall(last, "tg") /\ last.mode = "ai"
    /\ last.vendor = 1 /\ last.reply.ok
    /\ ~last.out.ok
    /\ last.out.exc = "TestGenerationError"
    /\ last.out.cause.exc = "JSONDecodeError"

StructuralFields == {"title", "name", "test_cases", "scenarios"}

\* C4: in each of the two services a structural-validation failure of the
\* reply (envelope without the expected key, item without title / name) is
\* reported with a message starting "Invalid response format:".
C4_InvalidResponseFormat ==
    (/\ last.t = "call" /\ last.mode = "ai"
     /\ ~last.out.ok
     /\ last.out.cause.exc = "ValueError"
     /\ last.out.cause.names \cap StructuralFields # {})
        => last.out.msg = "Invalid response format:"

\* C6: on the AI path generate_tests returns the first max_tests, in source
\* order, of the parsed test cases matching the requested type (all of them
\* for "all"), and generate_scenarios the first max_scenarios parsed scenarios.
FirstK(seq, k) == [i \in 1..Min(k, Len(seq)) |-> seq[i]]

C6_FilterThenTruncate ==
    (last.t = "call" /\ last.mode = "ai" /\ last.out.ok) =>
        IF last.svc = "tg"
        THEN LET parsed == TestGenerator_parse_response(last.reply.val.content).val
                 matching == SelectSeq(parsed,
                                 LAMBDA tc : last.args.test_type \in {"all", tc.test_type})
             IN  /\ last.out.val.test_cases = FirstK(matching, last.args.max_tests)
                 /\ Len(last.out.val.test_cases) <= last.args.max_tests
        ELSE LET parsed == BDDGenerator_parse_response(last.reply.val.content).val.scenarios
             IN  last.out.val.scenarios = FirstK(parsed, last.args.max_scenarios)

\* a reply of two cases of different types, asked for one case of the second type
C6_Witness ==
    /\ IsCall(last, "tg") /\ last.mode = "ai" /\ last.out.ok
    /\ last.args.test_type = "negative"
    /\ last.args.max_tests = 1
    /\ Len(TestGenerator_parse_response(last.reply.val.content).val) = 2
    /\ TestGenerator_parse_response(last.reply.val.content).val[1].test_type = "functional"
    /\ Len(last.out.val.test_cases) = 1

\* C7: every generate_tests call made with a non-null priority returns only
\* test cases of exactly that priority, in mock mode and on the AI path.
C7_PriorityApplied ==
    (IsCall(last, "tg") /\ last.out.ok /\ last.args.priority # "None") =>
        \A i \in 1..Len(last.out.val.test_cases) :
            last.out.val.test_cases[i].priority = last.args.priority


-----------------------------------------------------------------------------
(* The parsers applied to reply texts                                      *)

\* test-case objects: every valid priority and type, values outside the
\* vocabulary, null and missing fields, a null and a missing title
ParseTCItems ==
    {TCItem(JStr("T1"), JStr("functional"), JStr("critical")),
     TCItem(JStr("T2"), JStr("edge_case"), JStr("high")),
     TCItem(JStr("T1"), JStr("negative"), JStr("medium")),
     TCItem(JStr("T2"), Absent, JStr("low")),
     TCItem(JStr("T1"), JStr("all"), JStr("urgent")),
     TCItem(JStr("T2"), JNull, JNull),
     TCItem(JStr("T1"), JStr("functional"), Absent),
     TCItem(Absent, JStr("functional"), JStr("high")),
     TCItem(JNull, JStr("functional"), JStr("high"))}

\* scenario objects: steps as a list or a single string, examples present,
\* missing or ill-typed, a missing name
ParseSCItems ==
    {SCItem(JStr("S1"), JList(<<JStr("a user")>>), GoodRows),
     SCItem(JStr("S2"), JStr("a user"), Absent),
     SCItem(JStr("S1"), JStr("a user"), JStr("none")),
     SCItem(Absent, JStr("a user"), Absent)}

ParseArrays == SeqsUpTo(ParseTCItems, MaxItems) \cup SeqsUpTo(ParseSCItems, MaxItems)

\* valid JSON whose items or fields are not of the expected type
IllTypedValues ==
    {JList(<<JNum(1)>>),
     JList(<<JNull>>),
     JList(<<JStr("title")>>),
     JList(<<JDict(<< <<"name", JStr("S1")>>, <<"given", JNum(1)>> >>)>>)}

\* JSON values a reply may hold
ParseValues ==
    {JList(q) : q \in ParseArrays}
    \cup {JDict(<< <<"test_cases", JList(q)>> >>) : q \in ParseArrays}
    \cup {JDict(<< <<"feature_name", JStr("Login")>>, <<"scenarios", JList(q)>> >>) :
             q \in ParseArrays}
    \cup {JDict(<< <<"items", JList(<<>>)>> >>), JStr("done"), JNum(1), JNull,
          JDict(<< <<"test_cases", JStr("none")>>, <<"scenarios", JNull>> >>)}
    \cup IllTypedValues

\* a JSON value written out: on one line, or an array over several lines
JsonTexts ==
    {OneLine(v) : v \in ParseValues}
    \cup {<<OpenLine>> \o [i \in 1..Len(q) |-> ValLine(q[i])] \o <<CloseLine>> :
             q \in ParseArrays}
    \cup {<<BlankLine>> \o OneLine(JList(q)) \o <<BlankLine>> : q \in ParseArrays}

\* the ways a vendor dresses a JSON text
Dressings(j) ==
    {j,
     <<FenceJsonLine>> \o j \o <<FenceLine>>,
     <<FenceLine>> \o j \o <<FenceLine>>,
     <<BlankLine, FenceJsonLine>> \o j \o <<FenceLine, BlankLine>>,
     <<FenceJsonLine>> \o j,
     <<ProseLine>> \o j,
     <<FenceJsonLine>> \o j \o <<FenceLine, ProseLine>>,
     <<FenceJsonLine>> \o j \o <<ProseLine>>}

ParseContents == UNION {Dressings(j) : j \in JsonTexts} \cup {<<>>, <<FenceLine>>}

ParseTests ==
    /\ tgParsed = None
    /\ tgParsed' = TestGenerator_parse_response(content)
    /\ UNCHANGED <<tg, bdd, ncalls, factoryCalls, vendorCalls, last, prevMock,
                   content, bddParsed, settings, chosen, adapterVars, tasks>>

ParseScenarios ==
    /\ bddParsed = None
    /\ bddParsed' = BDDGenerator_parse_response(content)
    /\ UNCHANGED <<tg, bdd, ncalls, factoryCalls, vendorCalls, last, prevMock,
                   content, tgParsed, settings, chosen, adapterVars, tasks>>

InitParse ==
    /\ content \in ParseContents
    /\ tgParsed = None
    /\ bddParsed = None
    /\ tg = NewService([use_ai |-> TRUE, provider |-> "openai", api_key |-> NoKey])
    /\ bdd = NewService([use_ai |-> TRUE, provider |-> "openai", api_key |-> NoKey])
    /\ ncalls = 0
    /\ factoryCalls = 0
    /\ vendorCalls = 0
    /\ last = NoCall
    /\ prevMock = NoCall
    /\ settings = ServiceSettings
    /\ chosen = None
    /\ adapter = None
    /\ exchange = None
    /\ connections = 0
    /\ tasks = <<>>

NextParse == ParseTests \/ ParseScenarios

SpecParse == InitParse /\ [][NextParse]_vars

-----------------------------------------------------------------------------
(* The client factory under every settings combination                     *)

ApiKeyValues(name) == {NoKey, "", name}

AllSettings ==
    [default_ai_provider : PROVIDERS,
     openai_api_key : ApiKeyValues("sk-openai"),
     anthropic_api_key : ApiKeyValues("sk-anthropic")]

GetDefaultClient ==
    /\ chosen' = [op |-> "get_default_client", out |-> get_default_client(settings)]
    /\ UNCHANGED <<tg, bdd, ncalls, factoryCalls, vendorCalls, last, prevMock,
                   content, tgParsed, bddParsed, settings, adapterVars, tasks>>

ResolveAiProvider ==
    /\ chosen' = [op |-> "resolve_ai_provider", out |-> Ok(resolve_ai_provider(settings))]
    /\ UNCHANGED <<tg, bdd, ncalls, factoryCalls, vendorCalls, last, prevMock,
                   content, tgParsed, bddParsed, settings, adapterVars, tasks>>

GetLlmClient ==
    /\ \E provider \in PROVIDERS \cup {"unknown"}, api_key \in {NoKey, "sk-explicit"} :
          chosen' = [op |-> "get_llm_client", provider |-> provider, api_key |-> api_key,
                     out |-> get_llm_client(provider, api_key, settings)]
    /\ UNCHANGED <<tg, bdd, ncalls, factoryCalls, vendorCalls, last, prevMock,
                   content, tgParsed, bddParsed, settings, adapterVars, tasks>>

InitFactory ==
    /\ settings \in AllSettings
    /\ chosen = None
    /\ adapter = None
    /\ exchange = None
    /\ connections = 0
    /\ tasks = <<>>
    /\ content = <<>>
    /\ tgParsed = None
    /\ bddParsed = None
    /\ tg = NewService([use_ai |-> TRUE, provider |-> "openai", api_key |-> NoKey])
    /\ bdd = NewService([use_ai |-> TRUE, provider |-> "openai", api_key |-> NoKey])
    /\ ncalls = 0
    /\ factoryCalls = 0
    /\ vendorCalls = 0
    /\ last = NoCall
    /\ prevMock = NoCall

NextFactory == GetDefaultClient \/ ResolveAiProvider \/ GetLlmClient

SpecFactory == InitFactory /\ [][NextFactory]_vars


-----------------------------------------------------------------------------
(* Properties of the parsers                                               *)

\* the string a source object holds under a key ("" when absent or not a string)
SourceStr(item, key) ==
    IF HasKey(item, key) /\ Item(item, key).t = "str" THEN Item(item, key).s ELSE ""

HasTitle(item) ==
    item.t = "dict" /\ HasKey(item, "title") /\ Item(item, "title").t = "str"

\* C5: TestGenerator._parse_response on a JSON array of N test-case objects
\* that each have a title returns N test cases in source order with the titles
\* verbatim, the priority kept when it is one of the four levels and "medium"
\* otherwise, the test_type kept when it is one of the three types and
\* "functional" otherwise; an out-of-set value never rejects the reply.
C5_ParseTestCases ==
    LET src == json_loads(content)
    IN  (/\ tgParsed # None
         /\ src.ok
         /\ src.val.t = "list"
         /\ \A i \in 1..Len(src.val.v) : HasTitle(src.val.v[i]))
        =>  /\ tgParsed.ok
            /\ Len(tgParsed.val) = Len(src.val.v)
            /\ \A i \in 1..Len(src.val.v) :
                  LET item == src.val.v[i]
                      tc == tgParsed.val[i]
                  IN  /\ tc.title = Item(item, "title").s
                      /\ tc.priority = IF SourceStr(item, "priority") \in Priorities
                                       THEN SourceStr(item, "priority") ELSE "medium"
                      /\ tc.test_type = IF SourceStr(item, "test_type") \in TestTypes
                                        THEN SourceStr(item, "test_type") ELSE "functional"

\* a parsed array of two titled cases, the second with an unknown priority and
\* an unknown test_type
C5_Witness ==
    LET src == json_loads(content)
    IN  /\ tgParsed # None /\ tgParsed.ok
        /\ src.ok /\ src.val.t = "list" /\ Len(src.val.v) = 2
        /\ HasTitle(src.val.v[1]) /\ HasTitle(src.val.v[2])
        /\ SourceStr(src.val.v[1], "priority") = "critical"
        /\ SourceStr(src.val.v[2], "priority") = "urgent"
        /\ SourceStr(src.val.v[2], "test_type") = "all"

\* the text between the first and the last line
Inner(text) == SubSeq(text, 2, Len(text) - 1)

\* an opening fence line (tagged json or not), a JSON text, a closing fence line
IsFencedJson(text) ==
    /\ Len(text) >= 3
    /\ text[1] \in {FenceLine, FenceJsonLine}
    /\ text[Len(text)] = FenceLine
    /\ json_loads(Inner(text)).ok

\* C8: _parse_response of both services gives the same outcome on a JSON text
\* wrapped in a fenced code block as on the JSON text itself.
C8_FencedParsesAlike ==
    IsFencedJson(content) =>
        /\ tgParsed # None => tgParsed = TestGenerator_parse_response(Inner(content))
        /\ bddParsed # None => bddParsed = BDDGenerator_parse_response(Inner(content))

\* a fenced, json-tagged array that both parsers were applied to, the test
\* parser returning two cases
C8_Witness ==
    /\ IsFencedJson(content)
    /\ content[1] = FenceJsonLine
    /\ tgParsed # None /\ tgParsed.ok /\ Len(tgParsed.val) = 2
    /\ bddParsed # None

\* the items of an envelope: the array itself, or the array under the key
EnvelopeItems(value, key) ==
    IF value.t = "list" THEN value.v
    ELSE IF value.t = "dict" /\ HasKey(value, key) /\ Item(value, key).t = "list"
    THEN Item(value, key).v
    ELSE <<>>

LacksKey(items, key) ==
    \E i \in 1..Len(items) : items[i].t = "dict" /\ ~HasKey(items[i], key)

RaisesValueErrorNaming(outcome, field) ==
    /\ ~outcome.ok
    /\ IsInstance(outcome.exc, "ValueError")
    /\ field \in outcome.names

\* C9: TestGenerator._parse_response raises a ValueError naming title when any
\* item lacks a title and one naming test_cases when the top-level object has
\* no such key; BDDGenerator._parse_response likewise for name and scenarios;
\* no partial list is returned in these cases.
C9_StructuralFailures ==
    LET src == json_loads(content)
    IN  src.ok =>
          /\ tgParsed # None =>
                /\ (src.val.t = "dict" /\ ~HasKey(src.val, "test_cases")) =>
                      RaisesValueErrorNaming(tgParsed, "test_cases")
                /\ LacksKey(EnvelopeItems(src.val, "test_cases"), "title") =>
                      RaisesValueErrorNaming(tgParsed, "title")
          /\ bddParsed # None =>
                /\ (src.val.t = "dict" /\ ~HasKey(src.val, "scenarios")) =>
                      RaisesValueErrorNaming(bddParsed, "scenarios")
                /\ LacksKey(EnvelopeItems(src.val, "scenarios"), "name") =>
                      RaisesValueErrorNaming(bddParsed, "name")

\* an array whose first item is well-formed and whose second lacks its title,
\* rejected as a whole by the test parser
C9_Witness ==
    LET src == json_loads(content)
    IN  /\ src.ok /\ src.val.t = "list" /\ Len(src.val.v) = 2
        /\ HasTitle(src.val.v[1])
        /\ ~HasKey(src.val.v[2], "title")
        /\ tgParsed # None /\ ~tgParsed.ok
        /\ tgParsed.exc = "ValueError"

-----------------------------------------------------------------------------
(* Properties of the client factory                                        *)

OtherProvider(provider) == IF provider = "openai" THEN "anthropic" ELSE "openai"

ConfiguredFor(st, provider) ==
    IF provider = "openai" THEN has_openai_key(st) ELSE has_anthropic_key(st)

-----------------------------------------------------------------------------
(* Prompt schema: LLMMessage and LLMPrompt                                 *)
(* Temperatures are counted in tenths: 7 is 0.7, 20 is 2.0.                *)

NoModel == "None"                      \* Python None for a model name

LLMMessage(role, text) == [role |-> role, content |-> text]

PromptTemperatureMax == 20             \* le=2.0
PromptMaxTokensMax == 128000           \* le=128000

\* LLMPrompt.validate_messages_order: TRUE when the validator returns v,
\* FALSE when it raises "System message must be the first message"
validate_messages_order(v) ==
    IF v # <<>> /\ v[1].role = "system" /\ Len(v) > 1
    THEN \A i \in 2..Len(v) : v[i].role # "system"
    ELSE TRUE

\* LLMPrompt(messages=..., temperature=..., max_tokens=..., model=...)
LLMPrompt(messages, temperature, max_tokens, model) ==
    LET bad == (IF Len(messages) < 1 \/ ~validate_messages_order(messages)
                THEN {"messages"} ELSE {})
               \cup (IF temperature < 0 \/ temperature > PromptTemperatureMax
                     THEN {"temperature"} ELSE {})
               \cup (IF max_tokens < 1 \/ max_tokens > PromptMaxTokensMax
                     THEN {"max_tokens"} ELSE {})
    IN  IF bad = {}
        THEN Ok([messages |-> messages, temperature |-> temperature,
                 max_tokens |-> max_tokens, model |-> model])
        ELSE Raise("ValidationError", "LLMPrompt", bad)

-----------------------------------------------------------------------------
(* Vendor adapters: OpenAIClient and AnthropicClient                       *)

DefaultTemperature == 7                \* temperature: float = 0.7
DefaultMaxTokens == 4096               \* max_tokens: int = 4096
OpenAITemperatureMax == 20             \* min(2.0, temperature)
AnthropicTemperatureMax == 10          \* min(1.0, temperature)

DEFAULT_MODEL(provider) ==
    IF provider = "openai" THEN "gpt-4-turbo-preview" ELSE "claude-3-sonnet-20240229"

\* "a or b" on numbers and on optional strings
OrNum(a, b) == IF a # 0 THEN a ELSE b
OrStr(a, b) == IF a \notin {NoModel, ""} THEN a ELSE b

\* Python's two-argument min and max
PyMin(a, b) == IF b < a THEN b ELSE a
PyMax(a, b) == IF b > a THEN b ELSE a

\* a plausible slip: the Anthropic adapter inheriting the base range
ClampToBaseRange(provider, temperature) == PyMax(0, PyMin(OpenAITemperatureMax, temperature))

\* BaseLLMClient._validate_temperature and its override in AnthropicClient
validate_temperature(provider, temperature) ==
    IF provider = "anthropic"
    THEN PyMax(0, PyMin(AnthropicTemperatureMax, temperature))
    ELSE PyMax(0, PyMin(OpenAITemperatureMax, temperature))

SettingsFor(provider, st) ==
    IF provider = "openai"
    THEN [api_key |-> st.openai_api_key, model |-> st.openai_model,
          temperature |-> st.openai_temperature, max_tokens |-> st.openai_max_tokens]
    ELSE [api_key |-> st.anthropic_api_key, model |-> st.anthropic_model,
          temperature |-> st.anthropic_temperature, max_tokens |-> st.anthropic_max_tokens]

\* OpenAIClient.__init__ / AnthropicClient.__init__ with the parameter values
\* the call binds (a parameter the caller left out is bound to its default)
Adapter_init(provider, api_key, model, temperature, max_tokens, st) ==
    LET own == SettingsFor(provider, st)
    IN  [t |-> "client", provider |-> provider,
         api_key |-> IF KeyConfigured(api_key) THEN api_key ELSE own.api_key,
         model |-> OrStr(model, OrStr(own.model, DEFAULT_MODEL(provider))),
         temperature |-> OrNum(temperature, own.temperature),
         max_tokens |-> OrNum(max_tokens, own.max_tokens),
         conn |-> None]

\* an argument the caller passed, or left out
Passed(v) == [t |-> "passed", v |-> v]
NotPassed == [t |-> "left out"]
Bind(arg, default) == IF arg.t = "passed" THEN arg.v ELSE default

\* the constructor called directly with keyword arguments
Adapter_new(provider, a, st) ==
    Adapter_init(provider, Bind(a.api_key, NoKey), Bind(a.model, NoModel),
                 Bind(a.temperature, DefaultTemperature),
                 Bind(a.max_tokens, DefaultMaxTokens), st)

\* get_llm_client with keyword arguments: its own defaults are bound first and
\* every one of them is handed to the constructor
get_llm_client_kw(provider, a, st) ==
    IF provider \notin PROVIDERS
    THEN Raise("ValueError", "Unknown provider", {provider})
    ELSE Ok(Adapter_init(provider, Bind(a.api_key, NoKey), Bind(a.model, NoModel),
                         Bind(a.temperature, DefaultTemperature),
                         Bind(a.max_tokens, DefaultMaxTokens), st))

\* a plausible slip: the connection built again on every call
GetClientWithoutCache(self, made) ==
    IF ~KeyConfigured(self.api_key)
    THEN [out |-> Raise("LLMAuthenticationError", "API key not configured", {}),
          self |-> self, created |-> 0]
    ELSE LET conn == [t |-> "connection", id |-> made + 1, api_key |-> self.api_key]
         IN  [out |-> Ok(conn), self |-> [self EXCEPT !.conn = conn], created |-> 1]

\* OpenAIClient._get_client / AnthropicClient._get_client; made counts the
\* connection objects built so far and gives the new one its identity
Adapter_get_client(self, made) ==
    IF self.conn # None
    THEN [out |-> Ok(self.conn), self |-> self, created |-> 0]
    ELSE IF ~KeyConfigured(self.api_key)
    THEN [out |-> Raise("LLMAuthenticationError", "API key not configured", {}),
          self |-> self, created |-> 0]
    ELSE LET conn == [t |-> "connection", id |-> made + 1, api_key |-> self.api_key]
         IN  [out |-> Ok(conn), self |-> [self EXCEPT !.conn = conn], created |-> 1]

\* _convert_messages of either adapter
convert_messages(messages) ==
    [i \in 1..Len(messages) |-> [role |-> messages[i].role, content |-> messages[i].content]]

\* a text built by concatenation, kept as its parts
Text(parts) == [t |-> "text", parts |-> parts]

\* the loop of AnthropicClient._extract_system_message from message i on
RECURSIVE ExtractLoop(_, _, _, _)
ExtractLoop(messages, i, system_content, remaining) ==
    IF i > Len(messages)
    THEN [system_content |-> system_content, remaining |-> remaining]
    ELSE IF messages[i].role = "system"
    THEN ExtractLoop(messages, i + 1, Text(<<messages[i].content>>), remaining)
    ELSE ExtractLoop(messages, i + 1, system_content, Append(remaining, messages[i]))

extract_system_message(messages) == ExtractLoop(messages, 1, None, <<>>)

\* the two JSON-only instructions of AnthropicClient.complete (the first is
\* appended after a blank line)
JsonInstructionAppended ==
    "IMPORTANT: You must respond with valid JSON only. Do not include any text before or after the JSON object."
JsonInstructionAlone ==
    "You must respond with valid JSON only. Do not include any text before or after the JSON object."

\* the values complete resolves before it builds the request
ResolveCall(self, prompt) ==
    [model |-> OrStr(prompt.model, OrStr(self.model, DEFAULT_MODEL(self.provider))),
     temperature |-> validate_temperature(self.provider,
                                          OrNum(prompt.temperature, self.temperature)),
     max_tokens |-> OrNum(prompt.max_tokens, self.max_tokens)]

\* the keyword arguments OpenAIClient.complete hands to chat.completions.create
OpenAI_kwargs(self, prompt, json_mode) ==
    LET r == ResolveCall(self, prompt)
    IN  [model |-> r.model, messages |-> convert_messages(prompt.messages),
         temperature |-> r.temperature, max_tokens |-> r.max_tokens,
         response_format |-> IF json_mode THEN "json_object" ELSE "absent",
         system |-> Absent]

\* a plausible slip: json_mode ignored when the prompt has no system message
AnthropicKwargsWithoutSynthesis(self, prompt, json_mode) ==
    LET r == ResolveCall(self, prompt)
        ex == extract_system_message(prompt.messages)
        system_content ==
            IF json_mode /\ ex.system_content # None
            THEN Text(ex.system_content.parts \o <<JsonInstructionAppended>>)
            ELSE ex.system_content
    IN  [model |-> r.model, messages |-> convert_messages(ex.remaining),
         temperature |-> r.temperature, max_tokens |-> r.max_tokens,
         response_format |-> "absent",
         system |-> IF system_content # None THEN system_content ELSE Absent]

\* the keyword arguments AnthropicClient.complete hands to messages.create
Anthropic_kwargs(self, prompt, json_mode) ==
    LET r == ResolveCall(self, prompt)
        ex == extract_system_message(prompt.messages)
        system_content ==
            IF json_mode /\ ex.system_content # None
            THEN Text(ex.system_content.parts \o <<JsonInstructionAppended>>)
            ELSE IF json_mode
            THEN Text(<<JsonInstructionAlone>>)
            ELSE ex.system_content
    IN  [model |-> r.model, messages |-> convert_messages(ex.remaining),
         temperature |-> r.temperature, max_tokens |-> r.max_tokens,
         response_format |-> "absent",
         system |-> IF system_content # None THEN system_content ELSE Absent]

Adapter_kwargs(self, prompt, json_mode) ==
    IF self.provider = "openai" THEN OpenAI_kwargs(self, prompt, json_mode)
    ELSE Anthropic_kwargs(self, prompt, json_mode)

LLMResponseOf(text, model, prompt_tokens, completion_tokens, total_tokens, finish_reason) ==
    [content |-> text, model |-> model, prompt_tokens |-> prompt_tokens,
     completion_tokens |-> completion_tokens, total_tokens |-> total_tokens,
     finish_reason |-> finish_reason]

AdapterError(kind, msg, e) ==
    [ok |-> FALSE, exc |-> kind, msg |-> msg, names |-> {}, cause |-> e.exc]

\* a plausible slip: the final "except Exception" clause left out
MapWithoutCatchAll(e) ==
    IF IsInstance(e.exc, "AuthenticationError")
    THEN AdapterError("LLMAuthenticationError", "authentication failed:", e)
    ELSE IF IsInstance(e.exc, "RateLimitError")
    THEN AdapterError("LLMRateLimitError", "rate limit exceeded:", e)
    ELSE IF IsInstance(e.exc, "BadRequestError")
    THEN AdapterError("LLMInvalidRequestError", "Invalid request to", e)
    ELSE IF IsInstance(e.exc, "APIConnectionError")
    THEN AdapterError("LLMProviderError", "Failed to connect to", e)
    ELSE [ok |-> FALSE, exc |-> e.exc, msg |-> e.msg, names |-> {}, cause |-> e.exc]

\* the except clauses of complete, in order (the same in both adapters)
MapVendorError(e) ==
    IF IsInstance(e.exc, "AuthenticationError")
    THEN AdapterError("LLMAuthenticationError", "authentication failed:", e)
    ELSE IF IsInstance(e.exc, "RateLimitError")
    THEN AdapterError("LLMRateLimitError", "rate limit exceeded:", e)
    ELSE IF IsInstance(e.exc, "BadRequestError")
    THEN AdapterError("LLMInvalidRequestError", "Invalid request to", e)
    ELSE IF IsInstance(e.exc, "APIConnectionError")
    THEN AdapterError("LLMProviderError", "Failed to connect to", e)
    ELSE AdapterError("LLMProviderError", "API error:", e)

\* OpenAIClient.complete from the vendor call on: the call raised or returned
OpenAI_result(vendor) ==
    IF ~vendor.ok THEN MapVendorError(vendor)
    ELSE LET response == vendor.val
         IN  IF response.choices = <<>>
             THEN MapVendorError(Raise("IndexError", "list index out of range", {}))
             ELSE LET choice == response.choices[1]
                      usage == response.usage
                  IN  Ok(LLMResponseOf(
                          IF Truthy(choice.content) THEN choice.content.s ELSE "",
                          response.model,
                          IF usage # None THEN usage.prompt_tokens ELSE 0,
                          IF usage # None THEN usage.completion_tokens ELSE 0,
                          IF usage # None THEN usage.total_tokens ELSE 0,
                          choice.finish_reason))

\* AnthropicClient.complete from the vendor call on
Anthropic_result(vendor) ==
    IF ~vendor.ok THEN MapVendorError(vendor)
    ELSE LET response == vendor.val
         IN  Ok(LLMResponseOf(
                    IF response.content # <<>> THEN response.content[1].text ELSE "",
                    response.model,
                    response.usage.input_tokens,
                    response.usage.output_tokens,
                    response.usage.input_tokens + response.usage.output_tokens,
                    response.stop_reason))

Adapter_result(self, vendor) ==
    IF self.provider = "openai" THEN OpenAI_result(vendor) ELSE Anthropic_result(vendor)

-----------------------------------------------------------------------------
(* The adapters under construction and calls                               *)

MaxMessages == 3    \* messages in a prompt
MaxTemperature == 30 \* largest temperature handed to _validate_temperature, in tenths
MaxTasks == 3         \* concurrent calls on the service instances

AdapterSettingsOf(key, model, temperature, max_tokens) ==
    [default_ai_provider |-> "anthropic",
     openai_api_key |-> IF key THEN "sk-openai" ELSE NoKey,
     anthropic_api_key |-> IF key THEN "sk-anthropic" ELSE NoKey,
     openai_model |-> IF model THEN "gpt-4o" ELSE "",
     anthropic_model |-> IF model THEN "claude-sonnet-4-20250514" ELSE "",
     openai_temperature |-> temperature, anthropic_temperature |-> temperature,
     openai_max_tokens |-> max_tokens, anthropic_max_tokens |-> max_tokens]

\* settings objects: the defaults with keys, lowered defaults, no keys at all
AdapterSettings ==
    {AdapterSettingsOf(TRUE, TRUE, 7, 4096),
     AdapterSettingsOf(TRUE, TRUE, 2, 1024),
     AdapterSettingsOf(TRUE, FALSE, 0, 4096),
     AdapterSettingsOf(FALSE, TRUE, 2, 1024)}

\* keyword arguments a caller gives a constructor or get_llm_client
ConstructorArgs ==
    [api_key : {NotPassed, Passed("sk-explicit")},
     model : {NotPassed, Passed("explicit-model")},
     temperature : {NotPassed, Passed(0), Passed(5), Passed(30)},
     max_tokens : {NotPassed, Passed(2048)}]

PromptMessages ==
    {LLMMessage("system", "A"), LLMMessage("system", "B"),
     LLMMessage("user", "hi"), LLMMessage("assistant", "yo")}

MessageLists == SeqsUpTo(PromptMessages, MaxMessages)

DefaultMessages == <<LLMMessage("system", "A"), LLMMessage("user", "hi")>>

\* the prompts a caller can hold: every LLMPrompt the schema accepts
Prompts ==
    {q.val : q \in {r \in {LLMPrompt(m, DefaultTemperature, DefaultMaxTokens, NoModel) :
                              m \in MessageLists} : r.ok}}
    \cup {q.val : q \in {r \in {LLMPrompt(DefaultMessages, t, mt, model) :
                                   t \in {0, 15, 25}, mt \in {0, 1, 512},
                                   model \in {NoModel, "prompt-model"}} : r.ok}}

DefaultPrompt == LLMPrompt(DefaultMessages, DefaultTemperature, DefaultMaxTokens, NoModel).val

Usage == [prompt_tokens |-> 100, completion_tokens |-> 50, total_tokens |-> 150]

Choice(text) == [content |-> text, finish_reason |-> "stop"]

OpenAIResponse(choices, usage) ==
    [choices |-> choices, model |-> "vendor-model", usage |-> usage]

AnthropicResponse(blocks) ==
    [content |-> blocks, model |-> "vendor-model",
     usage |-> [input_tokens |-> 100, output_tokens |-> 50], stop_reason |-> "end_turn"]

\* exceptions a vendor SDK call raises (the SDKs share the class names)
VendorExceptions ==
    {"AuthenticationError", "RateLimitError", "BadRequestError", "APIConnectionError",
     "APITimeoutError", "InternalServerError", "RuntimeError"}

PlainBehaviour(provider) ==
    IF provider = "openai"
    THEN Ok(OpenAIResponse(<<Choice(JStr("reply"))>>, Usage))
    ELSE Ok(AnthropicResponse(<<[text |-> "reply"]>>))

\* what the awaited vendor call can do
VendorBehaviours(provider) ==
    {Raise(e, "vendor call failed", {}) : e \in VendorExceptions}
    \cup (IF provider = "openai"
          THEN {Ok(OpenAIResponse(choices, usage)) :
                   choices \in {<<>>, <<Choice(JNull)>>, <<Choice(JStr(""))>>,
                                <<Choice(JStr("reply"))>>,
                                <<Choice(JStr("reply")), Choice(JStr("other"))>>},
                   usage \in {None, Usage}}
          ELSE {Ok(AnthropicResponse(blocks)) :
                   blocks \in {<<>>, <<[text |-> ""]>>, <<[text |-> "reply"]>>,
                               <<[text |-> "reply"], [text |-> "more"]>>}})

\* the prompt varies against a plain reply, the vendor behaviour against the
\* default prompt
CompleteInputs(provider) ==
    {[prompt |-> q, vendor |-> PlainBehaviour(provider)] : q \in Prompts}
    \cup {[prompt |-> DefaultPrompt, vendor |-> v] : v \in VendorBehaviours(provider)}

serviceVars == <<tg, bdd, factoryCalls, last, prevMock, content, tgParsed, bddParsed,
                 chosen, tasks>>

\* OpenAIClient(...) / AnthropicClient(...) called directly
Adapter_construct ==
    /\ adapter = None
    /\ \E provider \in PROVIDERS, a \in ConstructorArgs :
          /\ adapter' = Adapter_new(provider, a, settings)
          /\ exchange' = [op |-> "construct", via |-> "constructor", args |-> a,
                          out |-> Ok(Adapter_new(provider, a, settings))]
    /\ UNCHANGED <<serviceVars, settings, ncalls, vendorCalls, connections>>

\* get_llm_client(provider=..., ...)
Adapter_get_llm_client ==
    /\ adapter = None
    /\ exchange = None
    /\ \E provider \in PROVIDERS \cup {"unknown"}, a \in ConstructorArgs :
          LET made == get_llm_client_kw(provider, a, settings)
          IN  /\ adapter' = IF made.ok THEN made.val ELSE None
              /\ exchange' = [op |-> "construct", via |-> "get_llm_client", args |-> a,
                              out |-> made]
    /\ UNCHANGED <<serviceVars, settings, ncalls, vendorCalls, connections>>

\* _get_client() called on the adapter
Adapter_get_client_call ==
    /\ adapter # None
    /\ exchange = None
    /\ ncalls < MaxCalls
    /\ ncalls' = ncalls + 1
    /\ LET gc == Adapter_get_client(adapter, connections)
       IN  /\ adapter' = gc.self
           /\ connections' = connections + gc.created
           /\ exchange' = [op |-> "_get_client", before |-> adapter, out |-> gc.out]
    /\ UNCHANGED <<serviceVars, settings, vendorCalls>>

\* complete(prompt, json_mode) of either adapter, entered as op
AdapterComplete(op, prompt, json_mode, behaviours) ==
    /\ ncalls' = ncalls + 1
    /\ LET gc == Adapter_get_client(adapter, connections)
       IN  /\ adapter' = gc.self
           /\ connections' = connections + gc.created
           /\ IF ~gc.out.ok
              THEN /\ exchange' = [op |-> op, before |-> adapter, prompt |-> prompt,
                                   json_mode |-> json_mode, request |-> None,
                                   vendor |-> None, out |-> gc.out]
                   /\ UNCHANGED vendorCalls
              ELSE \E vendor \in behaviours :
                      /\ exchange' = [op |-> op, before |-> adapter, prompt |-> prompt,
                                      json_mode |-> json_mode,
                                      request |-> Adapter_kwargs(gc.self, prompt, json_mode),
                                      vendor |-> vendor,
                                      out |-> Adapter_result(gc.self, vendor)]
                      /\ vendorCalls' = vendorCalls + 1
    /\ UNCHANGED <<serviceVars, settings>>

Adapter_complete ==
    /\ adapter # None
    /\ exchange = None
    /\ ncalls < MaxCalls
    /\ \E i \in CompleteInputs(adapter.provider), json_mode \in BOOLEAN :
          AdapterComplete("complete", i.prompt, json_mode, {i.vendor})

\* complete_simple(system_prompt, user_prompt, json_mode): the prompt is built
\* with the adapter's own temperature and max_tokens, then complete is called
Adapter_complete_simple ==
    /\ adapter # None
    /\ exchange = None
    /\ ncalls < MaxCalls
    /\ \E system_prompt \in {"A", "B"}, json_mode \in BOOLEAN :
          LET prompt == LLMPrompt(<<LLMMessage("system", system_prompt),
                                    LLMMessage("user", "hi")>>,
                                  adapter.temperature, adapter.max_tokens, NoModel)
          IN  IF prompt.ok
              THEN AdapterComplete("complete_simple", prompt.val, json_mode,
                                   VendorBehaviours(adapter.provider))
              ELSE /\ ncalls' = ncalls + 1
                   /\ exchange' = [op |-> "complete_simple", before |-> adapter,
                                   prompt |-> None, json_mode |-> json_mode,
                                   request |-> None, vendor |-> None, out |-> prompt]
                   /\ UNCHANGED <<serviceVars, settings, adapter, vendorCalls, connections>>

\* a caller builds an LLMPrompt from a message list
LLMPrompt_construct ==
    /\ adapter = None
    /\ exchange = None
    /\ \E messages \in MessageLists, temperature \in {DefaultTemperature, 25} :
          exchange' = [op |-> "LLMPrompt", messages |-> messages,
                       out |-> LLMPrompt(messages, temperature, DefaultMaxTokens, NoModel)]
    /\ UNCHANGED <<serviceVars, settings, adapter, ncalls, vendorCalls, connections>>

\* _validate_temperature(t) called on a fresh adapter, and again on its result
Adapter_validate_temperature ==
    /\ adapter # None
    /\ exchange = None
    /\ ncalls = 0
    /\ \E temperature \in (0 - MaxTemperature)..MaxTemperature :
          LET once == validate_temperature(adapter.provider, temperature)
          IN  exchange' = [op |-> "_validate_temperature", temperature |-> temperature,
                           out |-> Ok(once),
                           again |-> Ok(validate_temperature(adapter.provider, once))]
    /\ UNCHANGED <<serviceVars, settings, adapter, ncalls, vendorCalls, connections>>

\* the awaited call hands its result or its exception to the caller; the
\* adapter keeps its connection
AdapterReturn ==
    /\ exchange # None
    /\ exchange' = None
    /\ UNCHANGED <<serviceVars, settings, adapter, ncalls, vendorCalls, connections>>

InitAdapter ==
    /\ settings \in AdapterSettings
    /\ adapter = None
    /\ exchange = None
    /\ connections = 0
    /\ tasks = <<>>
    /\ ncalls = 0
    /\ vendorCalls = 0
    /\ factoryCalls = 0
    /\ tg = NewService([use_ai |-> TRUE, provider |-> "openai", api_key |-> NoKey])
    /\ bdd = NewService([use_ai |-> TRUE, provider |-> "openai", api_key |-> NoKey])
    /\ last = NoCall
    /\ prevMock = NoCall
    /\ content = <<>>
    /\ tgParsed = None
    /\ bddParsed = None
    /\ chosen = None

NextAdapter ==
    \/ Adapter_construct
    \/ Adapter_get_llm_client
    \/ Adapter_get_client_call
    \/ Adapter_complete
    \/ Adapter_complete_simple
    \/ LLMPrompt_construct
    \/ Adapter_validate_temperature
    \/ AdapterReturn

SpecAdapter == InitAdapter /\ [][NextAdapter]_vars

-----------------------------------------------------------------------------
(* Properties of the adapters                                              *)

IsCompletion(x) == x # None /\ x.op \in {"complete", "complete_simple"}

\* the vendor call of this exchange was made
VendorCalled(x) == IsCompletion(x) /\ x.vendor # None

SharedKinds ==
    {"LLMAuthenticationError", "LLMRateLimitError", "LLMInvalidRequestError",
     "LLMProviderError"}

\* the shared kind the adapters document for a vendor exception
SharedKindFor(vendorException) ==
    CASE vendorException = "AuthenticationError" -> "LLMAuthenticationError"
      [] vendorException = "RateLimitError"      -> "LLMRateLimitError"
      [] vendorException = "BadRequestError"     -> "LLMInvalidRequestError"
      [] OTHER                                   -> "LLMProviderError"

\* C11: whatever exception the vendor call raises inside complete, of either
\* adapter, complete raises exactly the shared kind that belongs to it:
\* AuthenticationError gives LLMAuthenticationError, RateLimitError gives
\* LLMRateLimitError, BadRequestError gives LLMInvalidRequestError, a
\* connection error or anything else gives LLMProviderError; no vendor
\* exception type leaves complete.
C11_VendorErrorsMapped ==
    (VendorCalled(exchange) /\ ~exchange.vendor.ok) =>
        /\ ~exchange.out.ok
        /\ exchange.out.exc = SharedKindFor(exchange.vendor.exc)
        /\ exchange.out.exc \in SharedKinds
        /\ exchange.out.exc \notin VendorExceptions

\* an Anthropic call whose vendor call timed out, reported as LLMProviderError
C11_Witness ==
    /\ VendorCalled(exchange)
    /\ exchange.before.provider = "anthropic"
    /\ ~exchange.vendor.ok
    /\ exchange.vendor.exc = "APITimeoutError"
    /\ exchange.out.exc = "LLMProviderError"

SystemPositions(messages) == {i \in 1..Len(messages) : messages[i].role = "system"}

FirstOf(positions) == CHOOSE i \in positions : \A j \in positions : i <= j

NotSystem(message) == message.role # "system"

\* C12: for every message list the Anthropic adapter is given, the system
\* field sent to the vendor is the content of the first system message (no
\* system field when there is none) and the conversation sent is the other
\* messages in their original order. Stated for calls without json_mode; the
\* conversation is compared where the list holds at most one system message.
C12_FirstSystemMessageSent ==
    (VendorCalled(exchange) /\ exchange.before.provider = "anthropic"
        /\ ~exchange.json_mode) =>
        LET messages == exchange.prompt.messages
            positions == SystemPositions(messages)
        IN  /\ exchange.request.system =
                   IF positions = {} THEN Absent
                   ELSE Text(<<messages[FirstOf(positions)].content>>)
            /\ (Cardinality(positions) <= 1 =>
                   exchange.request.messages = SelectSeq(messages, NotSystem))

\* C13: every LLMPrompt that is constructed holds at most one system message,
\* and only as its first element; construction is rejected for every message
\* list with a system message at a position after the first.
C13_SystemMessageOnlyFirst ==
    (exchange # None /\ exchange.op = "LLMPrompt") =>
        LET positions == SystemPositions(exchange.messages)
        IN  /\ (exchange.out.ok => positions \subseteq {1})
            /\ ((\E i \in positions : i > 1) => ~exchange.out.ok)

\* C14: with json_mode the OpenAI adapter asks for the json_object response
\* format and passes the messages on unchanged, role and content in order; the
\* Anthropic adapter sends as system the existing system content followed by
\* the JSON-only instruction, or the instruction alone when the prompt holds
\* no system message. Without json_mode neither adapter adds a response
\* format or an instruction.
C14_JsonMode ==
    VendorCalled(exchange) =>
        LET messages == exchange.prompt.messages
            positions == SystemPositions(messages)
            request == exchange.request
        IN  IF exchange.before.provider = "openai"
            THEN /\ request.response_format =
                        IF exchange.json_mode THEN "json_object" ELSE "absent"
                 /\ Len(request.messages) = Len(messages)
                 /\ \A i \in 1..Len(messages) :
                        request.messages[i] = [role |-> messages[i].role,
                                               content |-> messages[i].content]
                 /\ request.system = Absent
            ELSE /\ request.response_format = "absent"
                 /\ IF exchange.json_mode
                    THEN IF positions = {}
                         THEN request.system = Text(<<JsonInstructionAlone>>)
                         ELSE \E i \in positions :
                                 request.system = Text(<<messages[i].content,
                                                         JsonInstructionAppended>>)
                    ELSE IF positions = {}
                         THEN request.system = Absent
                         ELSE \E i \in positions :
                                 request.system = Text(<<messages[i].content>>)

\* an Anthropic call in json_mode on a prompt without a system message
C14_Witness ==
    /\ VendorCalled(exchange)
    /\ exchange.before.provider = "anthropic"
    /\ exchange.json_mode
    /\ SystemPositions(exchange.prompt.messages) = {}
    /\ exchange.request.system = Text(<<JsonInstructionAlone>>)

\* C15: a constructed adapter holds, for model, temperature and max_tokens
\* each on its own, the argument the caller passed, else the settings default
\* of its vendor, else the hardcoded fallback; its api key is the argument
\* passed, else the settings key. A client built without a temperature or
\* max_tokens argument, directly or through get_llm_client, holds the
\* settings values.
C15_ConstructorPrecedence ==
    (exchange # None /\ exchange.op = "construct" /\ exchange.out.ok) =>
        LET client == exchange.out.val
            a == exchange.args
            own == SettingsFor(client.provider, settings)
        IN  /\ client.temperature =
                   IF a.temperature.t = "passed" THEN a.temperature.v ELSE own.temperature
            /\ client.max_tokens =
                   IF a.max_tokens.t = "passed" THEN a.max_tokens.v ELSE own.max_tokens
            /\ client.model =
                   IF a.model.t = "passed" THEN a.model.v
                   ELSE IF own.model # "" THEN own.model
                   ELSE DEFAULT_MODEL(client.provider)
            /\ client.api_key =
                   IF a.api_key.t = "passed" THEN a.api_key.v ELSE own.api_key

\* the value of t clamped into 0..high
Clamped(t, high) == IF t < 0 THEN 0 ELSE IF t > high THEN high ELSE t

\* C16: for every temperature t the OpenAI adapter's _validate_temperature
\* returns t clamped into 0.0..2.0 and the Anthropic adapter's returns t
\* clamped into 0.0..1.0; no value is rejected, a value in range comes back
\* unchanged, and validating the result again changes nothing.
C16_TemperatureClamped ==
    (exchange # None /\ exchange.op = "_validate_temperature") =>
        LET t == exchange.temperature
            high == IF adapter.provider = "openai" THEN 20 ELSE 10
        IN  /\ exchange.out.ok
            /\ exchange.out.val = Clamped(t, high)
            /\ (0 <= t /\ t <= high => exchange.out.val = t)
            /\ exchange.again = exchange.out

\* 1.5 handed to the Anthropic adapter comes back as 1.0
C16_Witness ==
    /\ exchange # None
    /\ exchange.op = "_validate_temperature"
    /\ adapter.provider = "anthropic"
    /\ exchange.temperature = 15
    /\ exchange.out.val = 10

\* the vendor returned normally with an absent or empty reply
EmptyReply(x) ==
    /\ VendorCalled(x)
    /\ x.vendor.ok
    /\ IF x.before.provider = "openai"
       THEN \/ x.vendor.val.choices = <<>>
            \/ ~Truthy(x.vendor.val.choices[1].content)
       ELSE x.vendor.val.content = <<>>

\* C17: when the vendor call returns normally with an absent or empty reply
\* (OpenAI: no choices, or a first choice whose content is null or empty;
\* Anthropic: no content blocks) complete returns an LLMResponse whose content
\* is the empty string and does not raise.
C17_EmptyReplyTolerated ==
    EmptyReply(exchange) => (exchange.out.ok /\ exchange.out.val.content = "")

\* an exchange that uses the vendor connection: _get_client, or a complete
\* call that was entered
UsesConnection(x) ==
    /\ x # None
    /\ \/ x.op = "_get_client"
       \/ x.op = "complete"
       \/ (x.op = "complete_simple" /\ x.prompt # None)

\* C18: an adapter builds its vendor connection object on the first
\* _get_client / complete call only and every later call gets that same
\* object. Without a resolvable api key construction still succeeds, directly
\* and through get_llm_client; every use, the first and the later ones, raises
\* LLMAuthenticationError before any vendor call, and the connection stays
\* unset.
C18_LazyConnection ==
    /\ (adapter # None =>
           IF adapter.conn = None THEN connections = 0
           ELSE connections = 1 /\ adapter.conn.id = 1)
    /\ ((exchange # None /\ exchange.op = "construct") =>
           IF exchange.out.ok THEN exchange.out.val.conn = None
           ELSE exchange.out.exc = "ValueError")
    /\ (UsesConnection(exchange) =>
           LET b == exchange.before
           IN  IF ~KeyConfigured(b.api_key)
               THEN /\ ~exchange.out.ok
                    /\ exchange.out.exc = "LLMAuthenticationError"
                    /\ adapter.conn = None
                    /\ vendorCalls = 0
                    /\ (exchange.op # "_get_client" =>
                           exchange.request = None /\ exchange.vendor = None)
               ELSE /\ adapter.conn # None
                    /\ (b.conn # None => adapter.conn = b.conn)
                    /\ (exchange.op = "_get_client" => exchange.out = Ok(adapter.conn)))

\* a second call on an adapter that already holds its connection
C18_Witness ==
    /\ UsesConnection(exchange)
    /\ exchange.op = "_get_client"
    /\ ncalls = 2
    /\ exchange.before.conn # None
    /\ exchange.out = Ok(exchange.before.conn)


-----------------------------------------------------------------------------
(* Properties of the scenario tags and of the result metadata              *)

\* the tag lists _generate_mock_scenarios hands to its three scenarios
MockSourceTags ==
    << JList(<<JStr("@smoke"), JStr("@happy-path")>>),
       JList(<<JStr("@validation"), JStr("@regression")>>),
       JList(<<JStr("@error-handling"), JStr("@regression")>>) >>

IsHeading(line) == line.k \in {"Scenario:", "Scenario Outline:"}

\* the scenario's tags stand on the line right above its heading
TagLineAbove(gherkin, scenario) ==
    \E j \in 2..Len(gherkin) :
        /\ IsHeading(gherkin[j])
        /\ gherkin[j].name = scenario.name
        /\ gherkin[j - 1] = [k |-> "tags", tags |-> scenario.tags]

\* C19: the tags of the source are readable as scenario.tags on every
\* returned scenario, and with include_tags true the Gherkin text carries
\* them on one line right above the scenario's heading; with include_tags
\* false the Gherkin text has no tag line. Stated on mock-mode calls, whose
\* source tags are fixed.
C19_TagsCarriedAndRendered ==
    (IsCall(last, "bdd") /\ last.out.ok /\ ~bdd.use_ai) =>
        LET scenarios == last.out.val.scenarios
            gherkin == last.out.val.gherkin
        IN  IF last.args.include_tags
            THEN \A i \in 1..Len(scenarios) :
                    /\ "tags" \in DOMAIN scenarios[i]
                    /\ scenarios[i].tags = MockSourceTags[i]
                    /\ TagLineAbove(gherkin, scenarios[i])
            ELSE \A j \in 1..Len(gherkin) : gherkin[j].k # "tags"

MetadataKeys ==
    {"provider", "model", "scenario_focus", "description_length",
     "prompt_tokens", "completion_tokens", "total_tokens"}

\* C20: every successful generate_scenarios result has a metadata block with
\* the provider, the model, the scenario focus, the description length and
\* the three token counts; in mock mode the model is 'mock' and the token
\* counts are 0, on the AI path the model is the one the vendor reported.
C20_ResultMetadata ==
    (IsCall(last, "bdd") /\ last.out.ok) =>
        /\ "metadata" \in DOMAIN last.out.val
        /\ DOMAIN last.out.val.metadata = MetadataKeys
        /\ last.out.val.metadata.provider = bdd.provider
        /\ last.out.val.metadata.description_length = last.args.feature_description.len
        /\ IF bdd.use_ai
           THEN last.out.val.metadata.model = last.reply.val.model
           ELSE /\ last.out.val.metadata.model = "mock"
                /\ last.out.val.metadata.prompt_tokens = 0
                /\ last.out.val.metadata.completion_tokens = 0
                /\ last.out.val.metadata.total_tokens = 0


-----------------------------------------------------------------------------
(* Properties of the Gherkin text                                          *)

\* the positions of the scenario headings in a Gherkin text, in order
RECURSIVE HeadingsFrom(_, _)
HeadingsFrom(gherkin, j) ==
    IF j > Len(gherkin) THEN <<>>
    ELSE IF IsHeading(gherkin[j]) THEN <<j>> \o HeadingsFrom(gherkin, j + 1)
    ELSE HeadingsFrom(gherkin, j + 1)

\* the lines of the i-th scenario: from its heading up to the next heading
BlockOf(gherkin, heads, i) ==
    LET first == heads[i]
        after == IF i < Len(heads) THEN heads[i + 1] ELSE Len(gherkin) + 1
    IN  [j \in 1..(after - first) |-> gherkin[first + j - 1]]

HasExamplesLine(block) == \E j \in 1..Len(block) : block[j].k = "examples"

\* C21: the Gherkin text has exactly one heading per scenario, in the order
\* of the scenario list; a scenario with a non-empty examples list is headed
\* "Scenario Outline:", a scenario with an empty or absent examples list is
\* headed "Scenario:" and has no Examples block.
C21_HeadingPerScenario ==
    (IsCall(last, "bdd") /\ last.out.ok) =>
        LET scenarios == last.out.val.scenarios
            gherkin == last.out.val.gherkin
            heads == HeadingsFrom(gherkin, 1)
        IN  /\ Len(heads) = Len(scenarios)
            /\ \A i \in 1..Len(scenarios) :
                  /\ gherkin[heads[i]].name = scenarios[i].name
                  /\ IF Truthy(scenarios[i].examples)
                     THEN gherkin[heads[i]].k = "Scenario Outline:"
                     ELSE /\ gherkin[heads[i]].k = "Scenario:"
                          /\ ~HasExamplesLine(BlockOf(gherkin, heads, i))

\* a result with a scenario whose examples list is empty followed by one
\* whose examples list is not
C21_Witness ==
    /\ IsCall(last, "bdd") /\ last.out.ok
    /\ Len(last.out.val.scenarios) = 2
    /\ last.out.val.scenarios[1].examples = JList(<<>>)
    /\ Truthy(last.out.val.scenarios[2].examples)
    /\ HasExamplesLine(last.out.val.gherkin)


\* the scenarios an AI-path call hands to _format_gherkin
ScenariosToRender(c) ==
    SliceTo(BDDGenerator_parse_response(c.reply.val.content).val.scenarios,
            c.args.max_scenarios)

\* the Examples block the rows call for: a header of the first row's keys and
\* one data row per example with its values in the header's key order
ExamplesRendered(block, examples) ==
    LET keys == Keys(examples.v[1])
    IN  \E h \in 1..Len(block) :
           /\ block[h] = [k |-> "header", cells |-> keys]
           /\ h > 1 /\ block[h - 1].k = "examples"
           /\ Len(block) >= h + Len(examples.v)
           /\ \A r \in 1..Len(examples.v) :
                 /\ block[h + r].k = "row"
                 /\ Len(block[h + r].cells) = Len(keys)
                 /\ \A j \in 1..Len(keys) :
                       /\ HasKey(examples.v[r], keys[j])
                       /\ block[h + r].cells[j] = Item(examples.v[r], keys[j])
           /\ \A j \in 1..Len(block) : block[j].k = "row" => (j > h /\ j <= h + Len(examples.v))

\* C22: for every scenario with a non-empty examples list of mappings,
\* rendering completes and the Gherkin text holds an Examples block whose
\* header is the first example's keys and whose data rows, one per example,
\* give that example's values in the header's key order.
C22_ExamplesBlockRendered ==
    (/\ IsCall(last, "bdd") /\ last.mode = "ai"
     /\ last.reply # NoCall /\ last.reply.ok
     /\ BDDGenerator_parse_response(last.reply.val.content).ok
     /\ \E i \in 1..Len(ScenariosToRender(last)) :
           Truthy(ScenariosToRender(last)[i].examples))
    =>  /\ last.out.ok
        /\ LET scenarios == last.out.val.scenarios
               gherkin == last.out.val.gherkin
               heads == HeadingsFrom(gherkin, 1)
           IN  \A i \in 1..Len(scenarios) :
                  Truthy(scenarios[i].examples) =>
                      ExamplesRendered(BlockOf(gherkin, heads, i), scenarios[i].examples)


-----------------------------------------------------------------------------
(* Properties of the feature name                                          *)

\* the number of characters of a derived name: the characters kept from the
\* first sentence, plus the three of "..." when truncated
DerivedLength(name) == name.take + (IF name.ellipsis THEN 3 ELSE 0)

\* the feature name the reply envelope supplies (null in mock mode)
SuppliedFeatureName(c) ==
    IF c.mode = "ai"
    THEN BDDGenerator_parse_response(c.reply.val.content).val.feature_name
    ELSE JNull

\* C23: without a feature name from the reply envelope, and always in mock
\* mode, the feature name is the trimmed text of the description before its
\* first period; longer than 50 characters, it is cut to its first 47
\* characters followed by "...", so the name is never longer than 50 and is
\* exactly 50 when truncated. A non-empty name from the envelope is used
\* unchanged.
C23_FeatureName ==
    (IsCall(last, "bdd") /\ last.out.ok) =>
        LET d == last.args.feature_description
            name == last.out.val.feature_name
        IN  IF Truthy(SuppliedFeatureName(last))
            THEN name = SuppliedFeatureName(last)
            ELSE /\ name.t = "derived"
                 /\ name.of = d.text
                 /\ DerivedLength(name) <= 50
                 /\ IF d.sentence > 50
                    THEN name.take = 47 /\ name.ellipsis /\ DerivedLength(name) = 50
                    ELSE name.take = d.sentence /\ ~name.ellipsis

\* an AI-path result whose envelope has no feature name and whose
\* description opens with a sentence longer than the limit
C23_Witness ==
    /\ IsCall(last, "bdd") /\ last.out.ok /\ last.mode = "ai"
    /\ ~Truthy(SuppliedFeatureName(last))
    /\ last.args.feature_description.sentence > 50
    /\ last.out.val.feature_name.ellipsis


-----------------------------------------------------------------------------
(* The HTTP routes: request schemas, dependency providers, handlers        *)

DescriptionMinLength == 10
DescriptionMaxLength == 10000
MaxTestsLimit == 20
MaxScenariosLimit == 10
DefaultMaxTests == 5
DefaultMaxScenarios == 3

\* the description field of both request models: required, 10..10000 characters
BadDescription(field) ==
    \/ field = NotPassed
    \/ field.v.len < DescriptionMinLength
    \/ field.v.len > DescriptionMaxLength

\* a plausible slip: max_tests checked against its lower limit only
TestGenerationRequestWithoutUpperLimit(body) ==
    LET bad == (IF BadDescription(body.description) THEN {"description"} ELSE {})
               \cup (IF body.test_type # NotPassed
                        /\ body.test_type.v \notin TestTypes \cup {"all"}
                     THEN {"test_type"} ELSE {})
               \cup (IF body.max_tests # NotPassed /\ body.max_tests.v < 1
                     THEN {"max_tests"} ELSE {})
               \cup (IF body.priority # NotPassed
                        /\ body.priority.v \notin Priorities \cup {"None"}
                     THEN {"priority"} ELSE {})
    IN  IF bad # {} THEN Raise("RequestValidationError", "TestGenerationRequest", bad)
        ELSE Ok([description |-> body.description.v,
                 test_type |-> Bind(body.test_type, "all"),
                 max_tests |-> Bind(body.max_tests, DefaultMaxTests),
                 priority |-> Bind(body.priority, "None")])

\* TestGenerationRequest: the validated body of POST /generate/tests, as the
\* arguments the handler passes to generate_tests
TestGenerationRequest(body) ==
    LET bad == (IF BadDescription(body.description) THEN {"description"} ELSE {})
               \cup (IF body.test_type # NotPassed
                        /\ body.test_type.v \notin TestTypes \cup {"all"}
                     THEN {"test_type"} ELSE {})
               \cup (IF body.max_tests # NotPassed
                        /\ body.max_tests.v \notin 1..MaxTestsLimit
                     THEN {"max_tests"} ELSE {})
               \cup (IF body.priority # NotPassed
                        /\ body.priority.v \notin Priorities \cup {"None"}
                     THEN {"priority"} ELSE {})
    IN  IF bad # {} THEN Raise("RequestValidationError", "TestGenerationRequest", bad)
        ELSE Ok([description |-> body.description.v,
                 test_type |-> Bind(body.test_type, "all"),
                 max_tests |-> Bind(body.max_tests, DefaultMaxTests),
                 priority |-> Bind(body.priority, "None")])

\* BDDGenerationRequest: the validated body of POST /generate/bdd, as the
\* arguments of generate_scenarios; the handler passes neither scenario_focus
\* nor include_tags, which take the defaults of generate_scenarios
BDDGenerationRequest(body) ==
    LET bad == (IF BadDescription(body.feature_description)
                THEN {"feature_description"} ELSE {})
               \cup (IF body.max_scenarios # NotPassed
                        /\ body.max_scenarios.v \notin 1..MaxScenariosLimit
                     THEN {"max_scenarios"} ELSE {})
    IN  IF bad # {} THEN Raise("RequestValidationError", "BDDGenerationRequest", bad)
        ELSE Ok([feature_description |-> body.feature_description.v,
                 scenario_focus |-> "comprehensive",
                 max_scenarios |-> Bind(body.max_scenarios, DefaultMaxScenarios),
                 include_examples |-> Bind(body.include_examples, TRUE),
                 include_tags |-> TRUE])

\* get_test_generator / get_bdd_generator: a generator built for the request
\* from what resolve_ai_provider returns
get_generator(st) ==
    LET r == resolve_ai_provider(st)
    IN  NewService([use_ai |-> r.use_ai, provider |-> r.provider, api_key |-> r.api_key])

\* what one generate_tests call on the generator can do, over the vendor's
\* possible replies
generate_tests_outcomes(self, a, st) ==
    IF ~self.use_ai
    THEN {[self |-> self, factory |-> 0, vendor |-> 0,
           out |-> TestGenerator_generate_mock_response(self, a)]}
    ELSE LET gc == Service_get_client(self, st, "TestGenerationError")
         IN  IF ~gc.out.ok
             THEN {[self |-> gc.self, factory |-> gc.factory, vendor |-> 0,
                    out |-> TestGenerator_wrap(gc.out)]}
             ELSE {[self |-> gc.self, factory |-> gc.factory, vendor |-> 1,
                    out |-> TestGenerator_finish(gc.self, a, reply)] :
                      reply \in VendorOutcomes(gc.out.val, TestReplies)}

generate_scenarios_outcomes(self, a, st) ==
    IF ~self.use_ai
    THEN {[self |-> self, factory |-> 0, vendor |-> 0,
           out |-> BDDGenerator_generate_mock_response(self, a)]}
    ELSE LET gc == Service_get_client(self, st, "BDDGenerationError")
         IN  IF ~gc.out.ok
             THEN {[self |-> gc.self, factory |-> gc.factory, vendor |-> 0,
                    out |-> BDDGenerator_wrap(gc.out)]}
             ELSE {[self |-> gc.self, factory |-> gc.factory, vendor |-> 1,
                    out |-> BDDGenerator_finish(gc.self, a, reply)] :
                      reply \in VendorOutcomes(gc.out.val, ScenarioReplies)}

HTTP_200_OK == 200
HTTP_422_UNPROCESSABLE_ENTITY == 422
HTTP_500_INTERNAL_SERVER_ERROR == 500

\* the try / except of a handler: the result is the response body; both
\* except clauses raise HTTPException(500) with a detail built from the error
HandlerResponse(prefix, out) ==
    IF out.ok
    THEN [status |-> HTTP_200_OK, body |-> out.val]
    ELSE [status |-> HTTP_500_INTERNAL_SERVER_ERROR,
          detail |-> <<prefix, out.exc, out.msg>>]

\* a body that fails validation is answered before the handler is entered
ValidationResponse(invalid) ==
    [status |-> HTTP_422_UNPROCESSABLE_ENTITY, detail |-> invalid.names]

\* the router is mounted at the root and under the versioned prefix
Mounts == {"/generate", "/api/v1/ai/generate"}

ShortDescription == [text |-> "Too short", len |-> 9, sentence |-> 9]

\* request bodies: a plain body with one field varied at a time
PlainTestBody(description) ==
    [description |-> Passed(description), test_type |-> NotPassed,
     max_tests |-> NotPassed, priority |-> NotPassed]

TestBodies ==
    LET plain == PlainTestBody(CHOOSE d \in Descriptions : d.len = DescriptionMinLength)
    IN  {[plain EXCEPT !.description = x] :
            x \in {NotPassed, Passed(ShortDescription)} \cup {Passed(d) : d \in Descriptions}}
        \cup {[plain EXCEPT !.test_type = Passed(x)] :
                 x \in TestTypes \cup {"all", "invalid_type"}}
        \cup {[plain EXCEPT !.max_tests = Passed(x)] :
                 x \in {0, 1, MaxTests, MaxTestsLimit, MaxTestsLimit + 1}}
        \cup {[plain EXCEPT !.priority = Passed(x)] :
                 x \in Priorities \cup {"None", "urgent"}}

BDDBodies ==
    LET plain == [feature_description |->
                      Passed(CHOOSE d \in Descriptions : d.len = DescriptionMinLength),
                  max_scenarios |-> NotPassed, include_examples |-> NotPassed]
    IN  {[plain EXCEPT !.feature_description = x] :
            x \in {NotPassed, Passed(ShortDescription)} \cup {Passed(d) : d \in Descriptions}}
        \cup {[plain EXCEPT !.max_scenarios = Passed(x)] :
                 x \in {0, 1, MaxTests, MaxScenariosLimit, MaxScenariosLimit + 1}}
        \cup {[plain EXCEPT !.include_examples = Passed(x)] : x \in BOOLEAN}

HttpExchange(route, mount, body, invoked, r, response) ==
    [t |-> "http", route |-> route, mount |-> mount, body |-> body,
     invoked |-> invoked, factory |-> r.factory, vendor |-> r.vendor,
     generator |-> r.self, out |-> r.out, response |-> response]

routeVars == <<ncalls, prevMock, harnessVars>>

\* POST <mount>/tests
generate_tests ==
    \E mount \in Mounts, body \in TestBodies :
        LET request == TestGenerationRequest(body)
            generator == get_generator(settings)
        IN  /\ last = NoCall
            /\ UNCHANGED <<bdd, routeVars>>
            /\ IF ~request.ok
               THEN /\ last' = HttpExchange("tests", mount, body, FALSE,
                                            [self |-> generator, factory |-> 0,
                                             vendor |-> 0, out |-> NoCall],
                                            ValidationResponse(request))
                    /\ tg' = generator
                    /\ factoryCalls' = 0
                    /\ vendorCalls' = 0
               ELSE \E r \in generate_tests_outcomes(generator, request.val, settings) :
                        /\ last' = HttpExchange("tests", mount, body, TRUE, r,
                                       HandlerResponse("Failed to generate tests:", r.out))
                        /\ tg' = r.self
                        /\ factoryCalls' = r.factory
                        /\ vendorCalls' = r.vendor

\* POST <mount>/bdd
generate_bdd ==
    \E mount \in Mounts, body \in BDDBodies :
        LET request == BDDGenerationRequest(body)
            generator == get_generator(settings)
        IN  /\ last = NoCall
            /\ UNCHANGED <<tg, routeVars>>
            /\ IF ~request.ok
               THEN /\ last' = HttpExchange("bdd", mount, body, FALSE,
                                            [self |-> generator, factory |-> 0,
                                             vendor |-> 0, out |-> NoCall],
                                            ValidationResponse(request))
                    /\ bdd' = generator
                    /\ factoryCalls' = 0
                    /\ vendorCalls' = 0
               ELSE \E r \in generate_scenarios_outcomes(generator, request.val, settings) :
                        /\ last' = HttpExchange("bdd", mount, body, TRUE, r,
                                       HandlerResponse("Failed to generate BDD scenarios:", r.out))
                        /\ bdd' = r.self
                        /\ factoryCalls' = r.factory
                        /\ vendorCalls' = r.vendor

InitRoutes ==
    /\ settings \in AllSettings
    /\ tg = get_generator(settings)
    /\ bdd = get_generator(settings)
    /\ ncalls = 0
    /\ factoryCalls = 0
    /\ vendorCalls = 0
    /\ last = NoCall
    /\ prevMock = NoCall
    /\ content = <<>>
    /\ tgParsed = None
    /\ bddParsed = None
    /\ chosen = None
    /\ adapter = None
    /\ exchange = None
    /\ connections = 0
    /\ tasks = <<>>

NextRoutes == generate_tests \/ generate_bdd \/ ReturnToCaller

SpecRoutes == InitRoutes /\ [][NextRoutes]_vars

-----------------------------------------------------------------------------
(* Properties of the routes                                                *)

IsHttp(c) == c.t = "http"

\* the schema violations of a body, in the words of the contract
ViolatesSchema(c) ==
    LET b == c.body
        description == IF c.route = "tests" THEN b.description ELSE b.feature_description
    IN  \/ description = NotPassed
        \/ description.v.len < 10
        \/ /\ c.route = "tests"
           /\ \/ (b.max_tests # NotPassed /\ (b.max_tests.v < 1 \/ b.max_tests.v > 20))
              \/ (b.test_type # NotPassed
                    /\ b.test_type.v \notin {"functional", "edge_case", "negative", "all"})
              \/ (b.priority # NotPassed
                    /\ b.priority.v \notin {"critical", "high", "medium", "low", "None"})
        \/ /\ c.route = "bdd"
           /\ b.max_scenarios # NotPassed
           /\ (b.max_scenarios.v < 1 \/ b.max_scenarios.v > 10)

\* C24: at both mounts, POST /generate/tests and POST /generate/bdd answer
\* 422 without invoking the generator when the body violates the schema, 500
\* with a detail message when the generator raises, and 200 otherwise; with
\* no vendor key configured every schema-valid request is served by mock
\* mode with status 200.
C24_RouteStatus ==
    IsHttp(last) =>
        IF ViolatesSchema(last)
        THEN /\ last.response.status = 422
             /\ ~last.invoked /\ last.factory = 0 /\ last.vendor = 0
        ELSE /\ last.invoked
             /\ IF last.out.ok
                THEN last.response.status = 200 /\ last.response.body = last.out.val
                ELSE /\ last.response.status = 500
                     /\ "detail" \in DOMAIN last.response
                     /\ last.response.detail # <<>>
             /\ (~has_openai_key(settings) /\ ~has_anthropic_key(settings)) =>
                    /\ last.response.status = 200
                    /\ ~last.generator.use_ai
                    /\ last.factory = 0 /\ last.vendor = 0

\* a schema-valid request under the versioned prefix whose vendor call fails
C24_Witness ==
    /\ IsHttp(last)
    /\ last.mount = "/api/v1/ai/generate"
    /\ ~ViolatesSchema(last)
    /\ last.vendor = 1
    /\ ~last.out.ok
    /\ last.response.status = 500


-----------------------------------------------------------------------------
(* Properties of the vendor calls a service makes                          *)

ServiceOf(c) == IF c.svc = "tg" THEN tg ELSE bdd

\* C25: an AI-path generate_tests / generate_scenarios call invokes
\* complete_simple at most once, exactly once when a client was obtained,
\* and with json_mode=true; when that call fails with a provider error the
\* request fails at once, without a second vendor call.
C25_OneVendorCallPerRequest ==
    /\ vendorCalls <= ncalls
    /\ (last.t = "call" /\ last.mode = "ai") =>
          /\ last.vendor <= 1
          /\ (ServiceOf(last).client # None) <=> (last.vendor = 1)
          /\ last.vendor = 1 => last.json_mode
          /\ (last.vendor >= 1 /\ ~last.reply.ok) =>
                /\ ~last.out.ok
                /\ last.out.cause = last.reply
                /\ last.vendor = 1

\* the second AI-path call of a service whose vendor call fails with a rate limit
C25_Witness ==
    /\ last.t = "call" /\ last.mode = "ai"
    /\ ncalls = 2 /\ vendorCalls = 2
    /\ last.vendor = 1
    /\ ~last.reply.ok /\ last.reply.exc = "LLMRateLimitError"
    /\ ~last.out.ok


-----------------------------------------------------------------------------
(* Concurrent calls on one service instance                                *)

\* The handlers are coroutines on one event loop: a call runs without
\* interruption from its entry, through _get_client, into complete_simple up
\* to the await of the vendor call, and again from the vendor's answer to
\* its return.

IdleTask == [pc |-> "idle"]

TaskRecord(pc, svc, seen, client, factory, out) ==
    [pc |-> pc, svc |-> svc, seen |-> seen, client |-> client, factory |-> factory,
     out |-> out]

SelfOf(svc) == IF svc = "tg" THEN tg ELSE bdd

TaskArgs(svc) ==
    LET d == CHOOSE x \in Descriptions : x.len = 10
    IN  IF svc = "tg"
        THEN [description |-> d, test_type |-> "all", max_tests |-> MaxTests,
              priority |-> "None"]
        ELSE [feature_description |-> d, scenario_focus |-> "comprehensive",
              max_scenarios |-> MaxTests, include_examples |-> TRUE,
              include_tags |-> TRUE]

\* the texts a vendor answers a concurrent call with
TaskReplies(svc) ==
    IF svc = "tg"
    THEN {OneLine(JList(<<TCItem(JStr("T1"), JStr("functional"), JStr("high"))>>)),
          <<ProseLine>>}
    ELSE {OneLine(JList(<<SCItem(JStr("S1"), JList(<<JStr("a user")>>), GoodRows)>>)),
          <<ProseLine>>}

TaskWrap(svc, e) == IF svc = "tg" THEN TestGenerator_wrap(e) ELSE BDDGenerator_wrap(e)

TaskFinish(svc, self, reply) ==
    IF svc = "tg" THEN TestGenerator_finish(self, TaskArgs(svc), reply)
    ELSE BDDGenerator_finish(self, TaskArgs(svc), reply)

\* a call runs from its entry to the await of the vendor call, or to its end
\* when it fails before that
TaskStart(i, svc) ==
    /\ tasks[i].pc = "idle"
    /\ LET self == SelfOf(svc)
           gc == Service_get_client(self, settings, ServiceErrorKind(svc))
       IN  /\ IF svc = "tg" THEN tg' = gc.self /\ UNCHANGED bdd
              ELSE bdd' = gc.self /\ UNCHANGED tg
           /\ factoryCalls' = factoryCalls + gc.factory
           /\ IF ~gc.out.ok
              THEN /\ tasks' = [tasks EXCEPT ![i] =
                                   TaskRecord("done", svc, self.client, None, gc.factory,
                                              TaskWrap(svc, gc.out))]
                   /\ UNCHANGED vendorCalls
              ELSE /\ vendorCalls' = vendorCalls + 1
                   /\ IF ~KeyConfigured(gc.out.val.api_key)
                      THEN \E reply \in VendorOutcomes(gc.out.val, {}) :
                              tasks' = [tasks EXCEPT ![i] =
                                           TaskRecord("done", svc, self.client, gc.out.val,
                                                      gc.factory,
                                                      TaskFinish(svc, gc.self, reply))]
                      ELSE tasks' = [tasks EXCEPT ![i] =
                                        TaskRecord("awaiting", svc, self.client, gc.out.val,
                                                   gc.factory, None)]
    /\ UNCHANGED <<ncalls, last, prevMock, content, tgParsed, bddParsed, settings, chosen,
                   adapterVars>>

\* the vendor call of a suspended call returns or raises, and the call runs to its end
TaskResume(i) ==
    /\ tasks[i].pc = "awaiting"
    /\ \E reply \in VendorOutcomes(tasks[i].client, TaskReplies(tasks[i].svc)) :
          tasks' = [tasks EXCEPT ![i] =
                       [@ EXCEPT !.pc = "done",
                                 !.out = TaskFinish(tasks[i].svc, SelfOf(tasks[i].svc), reply)]]
    /\ UNCHANGED <<tg, bdd, ncalls, factoryCalls, vendorCalls, last, prevMock, content,
                   tgParsed, bddParsed, settings, chosen, adapterVars>>

InitTasks ==
    /\ \E cfg \in {c \in ServiceConfigs : c.use_ai} :
          /\ tg = NewService(cfg)
          /\ bdd = NewService(cfg)
    /\ tasks = [i \in 1..MaxTasks |-> IdleTask]
    /\ settings = ServiceSettings
    /\ ncalls = 0
    /\ factoryCalls = 0
    /\ vendorCalls = 0
    /\ last = NoCall
    /\ prevMock = NoCall
    /\ content = <<>>
    /\ tgParsed = None
    /\ bddParsed = None
    /\ chosen = None
    /\ adapter = None
    /\ exchange = None
    /\ connections = 0

NextTasks ==
    \/ \E i \in 1..MaxTasks, svc \in {"tg", "bdd"} : TaskStart(i, svc)
    \/ \E i \in 1..MaxTasks : TaskResume(i)

SpecTasks == InitTasks /\ [][NextTasks]_vars

-----------------------------------------------------------------------------
(* Properties of concurrent calls                                          *)

Entered(i) == tasks[i].pc # "idle"

\* the calls of a service that invoked the factory
FactoryCallers(svc) ==
    {i \in DOMAIN tasks : Entered(i) /\ tasks[i].svc = svc /\ tasks[i].factory = 1}

TasksInvariant ==
    /\ \A i \in DOMAIN tasks :
          Entered(i) =>
              LET t == tasks[i]
                  self == SelfOf(t.svc)
              IN  /\ t.client # None =>
                         /\ t.client.provider = self.provider
                         /\ t.client.api_key = ResolveKey(self.provider, self.api_key, settings)
                         /\ self.client = t.client
                  /\ t.factory = 1 => t.seen = None
                  /\ t.seen # None => t.client = t.seen
                  /\ (t.factory = 1 /\ t.client = None) =>
                         /\ t.pc = "done"
                         /\ ~t.out.ok
                         /\ t.out.exc = ServiceErrorKind(t.svc)
                         /\ self.client = None
    /\ \A svc \in {"tg", "bdd"} :
          SelfOf(svc).client # None => Cardinality(FactoryCallers(svc)) <= 2

CacheStable ==
    /\ tg.client # None => tg'.client = tg.client
    /\ bdd.client # None => bdd'.client = bdd.client

-----------------------------------------------------------------------------
(* Properties of the temperature sent to the vendor                        *)

LegalHigh(provider) == IF provider = "openai" THEN 20 ELSE 10

\* C27: the temperature an adapter sends is the caller's temperature clamped
\* into the vendor's range: complete sends clamp(prompt.temperature) for
\* every prompt temperature, 0.0 included; complete_simple sends clamp(the
\* client's configured temperature) for every configured value, and clamps a
\* value above the range instead of rejecting it. Temperatures are in tenths.
C27_TemperatureSent ==
    IsCompletion(exchange) =>
        LET high == LegalHigh(exchange.before.provider)
        IN  IF exchange.op = "complete"
            THEN VendorCalled(exchange) =>
                    exchange.request.temperature = Clamped(exchange.prompt.temperature, high)
            ELSE /\ ~(~exchange.out.ok /\ exchange.out.exc = "ValidationError")
                 /\ VendorCalled(exchange) =>
                       exchange.request.temperature = Clamped(exchange.before.temperature, high)


-----------------------------------------------------------------------------
(* Properties of the parsers on arbitrary JSON values                      *)

ReturnsOrValueError(outcome) == outcome.ok \/ IsInstance(outcome.exc, "ValueError")

\* C28: on every syntactically valid JSON value, whatever the types of its
\* items, steps and fields, _parse_response of each service returns typed
\* items or raises a ValueError, and never another exception type such as
\* TypeError, AttributeError or KeyError.
C28_OnlyValueErrors ==
    json_loads(content).ok =>
        /\ tgParsed # None => ReturnsOrValueError(tgParsed)
        /\ bddParsed # None => ReturnsOrValueError(bddParsed)


-----------------------------------------------------------------------------
(* Properties of the fence handling                                        *)

IsDecodeError(outcome) == ~outcome.ok /\ outcome.exc = "JSONDecodeError"

\* the reply after trimming, and what is left of it without its first and
\* last line
Trimmed(text) == Strip(text)
Between(text) == SubSeq(Trimmed(text), 2, Len(Trimmed(text)) - 1)

Fenced(text) ==
    Trimmed(text) # <<>> /\ Trimmed(text)[1] \in {FenceLine, FenceJsonLine}

EndsUnfenced(text) ==
    Fenced(text) /\ Trimmed(text)[Len(Trimmed(text))] # FenceLine

PrecededByProse(text) ==
    Len(Trimmed(text)) >= 2 /\ Trimmed(text)[1] = ProseLine

\* the parsers on a text that needs no fence handling
ParsedAs(svc, text) ==
    IF svc = "tg" THEN TestGenerator_parse_response(text)
    ELSE BDDGenerator_parse_response(text)

\* what both parsers do about fences: a trimmed reply that starts with the
\* marker is parsed without its first and last line, any other reply is
\* parsed as it is after trimming; JSON preceded by prose is a decode error
FenceHandling(svc, parsed) ==
    /\ Fenced(content) => parsed = ParsedAs(svc, Between(content))
    /\ ~Fenced(content) => parsed = ParsedAs(svc, Trimmed(content))
    /\ PrecededByProse(content) => IsDecodeError(parsed)

\* C29: fence stripping applies only to a trimmed reply that starts with the
\* fence marker and then removes exactly the first and the last line,
\* closing fence or not; any other reply goes to the JSON parser unchanged
\* apart from trimming; JSON preceded by prose, and a fenced reply whose
\* final line is not a closing fence, end in a decode error.
C29_FenceStripping ==
    /\ tgParsed # None =>
          /\ FenceHandling("tg", tgParsed)
          /\ EndsUnfenced(content) => IsDecodeError(tgParsed)
    /\ bddParsed # None =>
          /\ FenceHandling("bdd", bddParsed)
          /\ EndsUnfenced(content) => IsDecodeError(bddParsed)

\* C29, amended: as above, except that a fenced reply whose final line is
\* not a closing fence ends in a decode error exactly when the lines between
\* its first and its last line are not a JSON text by themselves; when they
\* are, they are parsed as the reply.
C29_FenceStrippingAmended ==
    /\ tgParsed # None =>
          /\ FenceHandling("tg", tgParsed)
          /\ EndsUnfenced(content) =>
                (IsDecodeError(tgParsed) <=> ~json_loads(Between(content)).ok)
    /\ bddParsed # None =>
          /\ FenceHandling("bdd", bddParsed)
          /\ EndsUnfenced(content) =>
                (IsDecodeError(bddParsed) <=> ~json_loads(Between(content)).ok)

\* a fenced array followed by a line of prose and no closing fence, parsed
\* into its test cases
C29_Witness ==
    /\ EndsUnfenced(content)
    /\ content[Len(content)] = ProseLine
    /\ tgParsed # None /\ tgParsed.ok
    /\ Len(tgParsed.val) >= 1


-----------------------------------------------------------------------------
(* Properties of the two provider choices                                  *)

KeyOf(st, provider) ==
    IF provider = "openai" THEN st.openai_api_key ELSE st.anthropic_api_key

\* r is what resolve_ai_provider returned and d the outcome of
\* get_default_client, both under the settings st
ChoicesAgree(st, r, d) ==
    /\ (has_openai_key(st) \/ has_anthropic_key(st)) =>
          /\ d.ok
          /\ d.val.provider = r.provider
    /\ ~r.use_ai <=> (~d.ok /\ d.exc = "LLMAuthenticationError")
    /\ r.use_ai =>
          /\ ConfiguredFor(st, r.provider)
          /\ r.api_key = KeyOf(st, r.provider)

====
